---- MODULE Spec2Model ----
(***************************************************************************)
(* CoreClaw host: the priority task queue (TaskQueue), the task store it   *)
(* writes through (taskRepo), the queue handler installed by the host      *)
(* (index.ts), the in-process event bus (IpcBus), the routing of           *)
(* task:created events from the Workflow conductor to the queue, the       *)
(* conductors' lifecycle, the prompt-version and draft repositories, the   *)
(* approval engine, the worker invocation (runInContainer) and the skills  *)
(* engine (applySkill, uninstallSkill), the learning analyzer's prompt     *)
(* suggestions, the Workflow conductor's planning, the store's schema      *)
(* migrations and the secrets handed to a worker.                          *)
(***************************************************************************)
EXTENDS Integers, Sequences, FiniteSets, TLC

\* ---------------------------------------------------------------- bounds
MaxTasks == 2          \* task ids 1..MaxTasks
MaxConcurrency == 2    \* the queue is constructed with concurrency in 1..MaxConcurrency
MaxRetriesBound == 1   \* the tasks' max-retries is drawn from 0..MaxRetriesBound
MaxNesting == 4        \* nested publications of task:created the call stack holds
MaxInbound == 1        \* messages Inbox receives in one run of the host
MaxIntervals == 4      \* interval timers set in one run
MaxBacklog == 51        \* rows a previous run leaves pending or queued
MaxSubs == 3           \* subscriptions on the bus at one time
MaxPrompts == 3        \* prompt version ids 1..MaxPrompts
MaxVersion == 2        \* version numbers 1..MaxVersion
MaxDrafts == 2         \* draft ids 1..MaxDrafts
MaxCorrections == 1    \* rows of the corrections table
MaxStdout == 6         \* tokens the captured stdout holds (MAX_STDOUT_BYTES)
MaxStderr == 1         \* lines the worker writes to stderr
MaxTimeouts == 2       \* times the inactivity timer fires in one run
MaxAgents == 2         \* agent types analyzeCorrections returns an insight for
MaxOpenings == 5       \* times the store is opened
MaxLaunches == 2       \* worker launches of one host run
MaxItems == 1          \* items in the payload of a batch-processing task

TaskIds == 1..MaxTasks

Priorities == {"urgent", "high", "normal", "low"}

\* the priority rank used by sortWaiting
PRIORITY_WEIGHT == [urgent |-> 0, high |-> 1, normal |-> 2, low |-> 3]

TerminalStatuses == {"completed", "failed", "cancelled"}

\* What the worker run of one task ends in (runInContainer): a last valid
\* frame with one of the four Agent-Output statuses, a child that exits
\* without any valid frame, or a spawn error.
WorkerOutcomes == {"completed", "failed", "partial", "escalated", "no-frame", "spawn-error"}

NoTask == 0

\* no variable set: an empty environment, a missing or empty .env file
NoVars == [k \in {} |-> ""]

\* no worker was launched
NoLaunch == [n |-> 0, containerId |-> "", options |-> [networkEnabled |-> FALSE, memoryLimit |-> ""],
             args |-> <<>>, env |-> NoVars, stdin |-> [taskId |-> 0, secrets |-> NoVars],
             log |-> <<>>]

\* a database file that has just been created
EmptyFile == [schema |-> {}, rows |-> {}]

\* no transaction is open
NoTxn == [stage |-> "none", work |-> EmptyFile]

\* the ids of the tasks of one workflow: the task and the sub-tasks that are
\* inserted before the call stack is exhausted
WfIds == 1..(MaxNesting + 1)

\* the event types the bus is exercised with, out of IpcEventType
BusEventTypes == {"task:created", "task:completed"}

\* the event name subscribeAll listens on
Wildcard == "*"

VARIABLES
  concurrency,   \* TaskQueue.concurrency (constructor option)
  handler,       \* TRUE once setHandler installed the handler
  paused,        \* TaskQueue.paused
  store,         \* the tasks table: id -> row
  waiting,       \* TaskQueue.waiting: sequence of Task objects
  active,        \* Task objects whose handler promise is pending
  running,       \* TaskQueue.running
  timers,        \* pending retry timers: id -> number of timers
  emitted,       \* events emitted by the last operation, in order, each with
                 \* the store status of its task at the moment of emission
  settled,       \* the handler promise settled by the last operation, if any
  count,         \* id -> event name -> number of such events emitted so far
  completedSeq,  \* ids of the `completed` events emitted so far, in order
  coWaited,      \* pairs of ids that were in the waiting buffer at the same time
  offered,       \* ids handed to enqueue by a caller of the queue, in order
  hostStarted,   \* TRUE once the host's start() has run
  inbound,       \* number of messages Inbox has handled
  subs,          \* IpcBus: the subscriptions, in the order of their registration
  publication,   \* IpcBus: the last publication, who received it and how it ended
  conductors,    \* role -> the conductor object's fields
  intervals,     \* the interval timers that are set: [id, owner]
  nextInterval,  \* the number of interval timers set so far
  backlog,       \* restart: rows a previous run left pending or queued
  restarted,     \* restart: TRUE once start() has re-enqueued
  reEnqueued,    \* restart: rows start() has handed to enqueue
  dispatched,    \* restart: re-enqueued tasks dispatched so far
  reopened,      \* ids of tasks moved from a terminal status to another one
  prompts,       \* the prompt_versions table: id -> row
  drafts,        \* the drafts table: id -> row
  corrections,   \* the corrections table, in the order of insertion
  engineCall,    \* the last call of the approval engine and what it did
  stdout,        \* runInContainer: the captured stdout, a sequence of tokens
  stderr,        \* runInContainer: the captured stderr, a sequence of lines
  lastOutput,    \* runInContainer: the last valid frame seen
  child,         \* the worker process: "running", "closed" or "failed"
  timeoutId,     \* the inactivity timer: "armed", "fired" or "cleared"
  killTimers,    \* the 10 s timers set and not yet fired
  signals,       \* the signals sent to the worker, in order
  result,        \* what runInContainer resolved with
  tree,          \* the project tree: its files' contents and its directories
  base,          \* .coreclaw/base: path -> content of the snapshot
  applied,       \* state.json: appliedSkills, in order
  initialized,   \* TRUE once .coreclaw/ and state.json exist
  skillCall,     \* the last call of the skills engine and what it did
  insights,      \* what analyzeCorrections returned to generatePromptSuggestions
  suggestions,   \* what generatePromptSuggestions returned
  taskTypes,     \* task id -> the type of the task
  dependsOn,     \* task id -> the ids in payload.dependsOn
  parentOf,      \* task id -> the task whose plan the sub-task is a step of
  planned,       \* the tasks conductor:workflow-planned was published for, in order
  dbFile,        \* the committed content of the database file: schema and schema_migrations
  conn,          \* _db: closed, migrating (inside getDb) or open
  migratePos,    \* the position of migrate's loop in MIGRATIONS
  appliedSet,    \* the versions migrate read from schema_migrations
  txn,           \* the open transaction's working copy of the file, and its stage
  migrationLog,  \* the versions whose migration committed, in order, over all openings
  openings,      \* the number of times the store was opened
  envFile,       \* the .env file of the working directory: key -> value
  processEnv,    \* process.env of the host, and whether the host has started
  launch         \* the last worker launch: what docker was given, and the host's log lines

queueVars == <<concurrency, handler, paused, store, waiting, active, running, timers,
               emitted, settled, count, completedSeq, coWaited, offered>>

hostVars == <<hostStarted, inbound>>

busVars == <<subs, publication>>

conductorVars == <<conductors, intervals, nextInterval>>

restartVars == <<backlog, restarted, reEnqueued, dispatched>>

dbVars == <<reopened>>

draftVars == <<drafts, corrections, engineCall>>

repoVars == <<prompts, draftVars>>

runnerVars == <<stdout, stderr, lastOutput, child, timeoutId, killTimers, signals, result>>

skillVars == <<tree, base, applied, initialized, skillCall>>

learnVars == <<insights, suggestions>>

workflowVars == <<taskTypes, dependsOn, parentOf, planned>>

migrVars == <<dbFile, conn, migratePos, appliedSet, txn, migrationLog, openings>>

secretVars == <<envFile, processEnv, launch>>

moreVars == <<learnVars, workflowVars, migrVars, secretVars>>

extVars == <<runnerVars, skillVars, moreVars>>

auxVars == <<conductorVars, restartVars, dbVars, repoVars, extVars>>

vars == <<queueVars, hostVars, busVars, auxVars>>

\* ---------------------------------------------------------------- store

\* taskRepo.findById: the Task object built from the row
FindById(st, id) ==
  [id |-> id, priority |-> st[id].priority, createdAt |-> st[id].createdAt,
   retryCount |-> st[id].retryCount, maxRetries |-> st[id].maxRetries]

\* An update that keeps a completed-at once it is set
UpdateStatusCoalesce(st, id, status) ==
  IF st[id].status = "absent" THEN st
  ELSE [st EXCEPT ![id].status = status,
                  ![id].completedAt = (@ \/ status \in TerminalStatuses)]

\* taskRepo.updateStatus: UPDATE ... WHERE id = ?; completed_at is written on
\* every call: a timestamp for a terminal status, NULL otherwise
UpdateStatus(st, id, status) ==
  IF st[id].status = "absent" THEN st
  ELSE [st EXCEPT ![id].status = status,
                  ![id].completedAt = (status \in TerminalStatuses)]

\* taskRepo.incrementRetry
IncrementRetry(st, id) ==
  IF st[id].status = "absent" THEN st
  ELSE [st EXCEPT ![id].retryCount = @ + 1]

\* ---------------------------------------------------------------- queue

\* A comparator that forgets the priority rank
CompareByAge(a, b) == a.createdAt - b.createdAt

\* The comparator of sortWaiting: negative when a sorts before b
Compare(a, b) ==
  LET pDiff == PRIORITY_WEIGHT[a.priority] - PRIORITY_WEIGHT[b.priority]
  IN  IF pDiff # 0 THEN pDiff ELSE a.createdAt - b.createdAt

\* Array.prototype.sort is stable: an element is placed after every element
\* that does not compare greater than it
RECURSIVE InsertSorted(_, _)
InsertSorted(s, x) ==
  IF s = <<>> THEN <<x>>
  ELSE IF Compare(x, Head(s)) < 0 THEN <<x>> \o s
       ELSE <<Head(s)>> \o InsertSorted(Tail(s), x)

\* A buffer that is left in insertion order
KeepInsertionOrder(s) == s

RECURSIVE SortWaiting(_)
SortWaiting(s) ==
  IF s = <<>> THEN <<>>
  ELSE InsertSorted(SortWaiting(SubSeq(s, 1, Len(s) - 1)), s[Len(s)])

\* The queue and the store as one value, so that an operation and everything
\* it calls is one step
Q == [paused |-> paused, store |-> store, waiting |-> waiting, active |-> active,
      running |-> running, timers |-> timers, emitted |-> <<>>, count |-> count,
      completedSeq |-> completedSeq, coWaited |-> coWaited]

\* EventEmitter.emit(name, task): the entry keeps what a listener reading the
\* store would see
Emit(q, name, task) ==
  [q EXCEPT !.emitted = Append(@, [ev |-> name, id |-> task.id,
                                   status |-> q.store[task.id].status]),
            !.count[task.id][name] = @ + 1,
            !.completedSeq = IF name = "completed" THEN Append(@, task.id) ELSE @]

\* emit("paused") / emit("resumed")
EmitPlain(q, name) ==
  [q EXCEPT !.emitted = Append(@, [ev |-> name, id |-> NoTask, status |-> "none"])]

\* processTask, up to the call of the handler
ProcessTask(q, task) ==
  IF ~handler THEN q
  ELSE LET q1 == [q EXCEPT !.store = UpdateStatus(@, task.id, "running")]
           q2 == Emit(q1, "started", task)
       IN  [q2 EXCEPT !.active = Append(@, task)]

\* A loop condition that admits one task too many
CanDispatchOffByOne(q) == q.running <= concurrency /\ Len(q.waiting) > 0

\* the condition of drain's while loop
CanDispatch(q) == q.running < concurrency /\ Len(q.waiting) > 0

RECURSIVE DrainLoop(_)
DrainLoop(q) ==
  IF CanDispatch(q)
  THEN LET task == Head(q.waiting)
           q1 == [q EXCEPT !.waiting = Tail(@), !.running = @ + 1]
       IN  DrainLoop(ProcessTask(q1, task))
  ELSE q

\* A drain that does not look at the paused flag
DrainIgnoringPause(q) == IF ~handler THEN q ELSE DrainLoop(q)

Drain(q) ==
  IF q.paused THEN q
  ELSE IF ~handler THEN q
  ELSE DrainLoop(q)

Range(s) == {s[i] : i \in 1..Len(s)}

\* An enqueue that emits `enqueued` before it writes the store
EnqueueOpEmitFirst(q, task) ==
  LET q1 == Emit(q, "enqueued", task)
      q2 == [q1 EXCEPT !.store = UpdateStatus(@, task.id, "queued")]
      q3 == [q2 EXCEPT !.waiting = SortWaiting(Append(@, task)),
                       !.coWaited = @ \cup {<<task.id, w.id>> : w \in Range(q2.waiting)}
                                      \cup {<<w.id, task.id>> : w \in Range(q2.waiting)}]
  IN  Drain(q3)

\* enqueue(task)
EnqueueOp(q, task) ==
  LET q1 == [q EXCEPT !.store = UpdateStatus(@, task.id, "queued")]
      q2 == [q1 EXCEPT !.waiting = SortWaiting(Append(@, task)),
                       !.coWaited = @ \cup {<<task.id, w.id>> : w \in Range(q1.waiting)}
                                      \cup {<<w.id, task.id>> : w \in Range(q1.waiting)}]
      q3 == Emit(q2, "enqueued", task)
  IN  Drain(q3)

Commit(q) ==
  /\ paused' = q.paused
  /\ store' = q.store
  /\ waiting' = q.waiting
  /\ active' = q.active
  /\ running' = q.running
  /\ timers' = q.timers
  /\ emitted' = q.emitted
  /\ count' = q.count
  /\ completedSeq' = q.completedSeq
  /\ coWaited' = q.coWaited

NoSettle == [id |-> NoTask, outcome |-> "none", retryCount |-> 0, maxRetries |-> 0]

EventNames == {"enqueued", "started", "retry", "failed", "completed"}

\* the conductors the lifecycle is exercised with: Chief and Learning own an
\* interval timer, Workflow owns none
ConductorRoles == {"chief", "learning", "workflow"}

\* the number of subscriptions registerSubscriptions makes
SubscriptionsOf(role) == IF role = "workflow" THEN 2 ELSE 3

\* no interval timer
NoInterval == 0

PromptIds == 1..MaxPrompts

PromptNames == {"triage-system-prompt", "draft-system-prompt"}

DraftIds == 1..MaxDrafts

DraftStatuses ==
  {"pending_review", "approved", "rejected", "sent", "edited_and_sent", "auto_approved"}

\* A body is its sequence of tokens, each a word or the blank " " that stands
\* for a run of whitespace; <<>> is the empty string.
Blank == " "

NoBody == <<>>

\* the body createDraft takes from the worker's output
CreateBodies == {<<"Dear", Blank, "sir">>}

\* the bodies a reviewer sends to editAndApproveDraft
EditedBodies == {NoBody, <<Blank>>, <<"dear", Blank, "madam">>}

\* the reasons a reviewer sends to rejectDraft
Reasons == {"", "wrong tone"}

NoScore == 0

\* autoApproveMatch: null
NoRule == "none"

\* the names of the approval rules autoApproveDraft is called with
Rules == {"known-sender"}

Scores == {85}

\* an id with no row in drafts
AbsentDraft ==
  [status |-> "absent", body |-> NoBody, originalBody |-> NoBody,
   insertedBody |-> NoBody, qualityScore |-> NoScore, autoApproveMatch |-> NoRule]

NoCall ==
  [op |-> "none", id |-> 0, reason |-> "", rule |-> NoRule, returned |-> "void",
   published |-> <<>>]

\* the paths of the project the skills of the model name
Paths == {"README.md", "lib/x.ts"}

\* the project root, which holds README.md
Root == "."

\* the directories under the root
Dirs == {"lib"}

\* fs.existsSync(path) is false
Absent == "absent"

\* a project tree with no file and no directory
EmptyTree == [files |-> [p \in Paths |-> Absent], dirs |-> {}]

\* path.dirname(path)
DirOf(path) == IF path = "lib/x.ts" THEN "lib" ELSE Root

NoSkillCall ==
  [op |-> "none", skill |-> "none", ok |-> FALSE, error |-> <<>>, failAt |-> "none",
   postApplyExit |-> 0, pre |-> [tree |-> EmptyTree, applied |-> <<>>],
   afterApply |-> FALSE]

\* lastOutput: null
NoOutput == [status |-> "none", summary |-> <<>>]

\* the promise of runInContainer is pending
NoResult == [output |-> NoOutput, exitCode |-> 0, from |-> "pending"]

\* an id with no row in prompt_versions
AbsentPrompt == [name |-> "none", version |-> 0, active |-> FALSE]

\* the conductors as constructed
AuxInitButProject ==
  /\ conductors = [r \in ConductorRoles |->
                     [running |-> FALSE, unsubscribers |-> 0, subscribed |-> 0,
                      timer |-> NoInterval]]
  /\ intervals = {}
  /\ nextInterval = 0
  /\ backlog = 0
  /\ restarted = FALSE
  /\ reEnqueued = 0
  /\ dispatched = 0
  /\ reopened = {}
  /\ prompts = [i \in PromptIds |-> AbsentPrompt]
  /\ drafts = [d \in DraftIds |-> AbsentDraft]
  /\ corrections = <<>>
  /\ engineCall = NoCall
  /\ stdout = <<>>
  /\ stderr = <<>>
  /\ lastOutput = NoOutput
  /\ child = "running"
  /\ timeoutId = "armed"
  /\ killTimers = 0
  /\ signals = <<>>
  /\ result = NoResult
  /\ base = [p \in Paths |-> Absent]
  /\ applied = <<>>
  /\ initialized = FALSE
  /\ skillCall = NoSkillCall
  /\ insights = <<>>
  /\ suggestions = <<>>
  /\ taskTypes = [t \in WfIds |-> "none"]
  /\ dependsOn = [t \in WfIds |-> {}]
  /\ parentOf = [t \in WfIds |-> NoTask]
  /\ planned = <<>>
  /\ dbFile = EmptyFile
  /\ conn = "closed"
  /\ migratePos = 0
  /\ appliedSet = {}
  /\ txn = NoTxn
  /\ migrationLog = <<>>
  /\ openings = 0
  /\ envFile = NoVars
  /\ processEnv = [started |-> FALSE, ambient |-> NoVars, vars |-> NoVars]
  /\ launch = NoLaunch

AuxInit ==
  /\ AuxInitButProject
  /\ tree = EmptyTree

NoPublication ==
  [type |-> "none", received |-> <<>>, result |-> "none", observed |-> <<>>]

Row(p, c, m) ==
  [status |-> "pending", priority |-> p, createdAt |-> c, retryCount |-> 0,
   maxRetries |-> m, completedAt |-> FALSE]

\* Ids number the tasks in the order of their insertion, so created-at does
\* not decrease with the id; two tasks may share a created-at instant
CreationTimes ==
  {c \in [TaskIds -> 1..MaxTasks] :
     /\ c[1] = 1
     /\ \A t \in TaskIds : t > 1 => c[t] - c[t - 1] \in {0, 1}}

\* The queue right after construction; the tasks are rows the conductors
\* inserted (status pending, retry-count 0, one max-retries for all: Inbox
\* inserts with a fixed value and Workflow copies the parent's)
Init ==
  /\ concurrency \in 1..MaxConcurrency
  /\ handler = FALSE
  /\ paused = FALSE
  /\ \E prio \in [TaskIds -> Priorities], created \in CreationTimes,
        m \in 0..MaxRetriesBound :
       store = [t \in TaskIds |-> Row(prio[t], created[t], m)]
  /\ waiting = <<>>
  /\ active = <<>>
  /\ running = 0
  /\ timers = [t \in TaskIds |-> 0]
  /\ emitted = <<>>
  /\ settled = NoSettle
  /\ count = [t \in TaskIds |-> [e \in EventNames |-> 0]]
  /\ completedSeq = <<>>
  /\ coWaited = {}
  /\ offered = <<>>
  /\ hostStarted = FALSE
  /\ inbound = 0
  /\ subs = <<>>
  /\ publication = NoPublication
  /\ AuxInit

\* setHandler(fn)
SetHandler ==
  /\ handler' = TRUE
  /\ emitted' = <<>>
  /\ settled' = NoSettle
  /\ UNCHANGED <<concurrency, paused, store, waiting, active, running, timers,
                 count, completedSeq, coWaited, offered, hostVars, busVars, auxVars>>

\* A caller hands a task it has not handed over before to enqueue
Enqueue(t) ==
  /\ t \notin Range(offered)
  /\ Commit(EnqueueOp(Q, FindById(store, t)))
  /\ offered' = Append(offered, t)
  /\ settled' = NoSettle
  /\ UNCHANGED <<concurrency, handler, hostVars, busVars, auxVars>>

\* pause()
Pause ==
  /\ Commit(EmitPlain([Q EXCEPT !.paused = TRUE], "paused"))
  /\ settled' = NoSettle
  /\ UNCHANGED <<concurrency, handler, offered, hostVars, busVars, auxVars>>

\* resume()
Resume ==
  /\ Commit(Drain(EmitPlain([Q EXCEPT !.paused = FALSE], "resumed")))
  /\ settled' = NoSettle
  /\ UNCHANGED <<concurrency, handler, offered, hostVars, busVars, auxVars>>

\* s without its i-th element
RemoveAt(s, i) == SubSeq(s, 1, i - 1) \o SubSeq(s, i + 1, Len(s))

\* The status of the Agent-Output runInContainer resolves with: the last valid
\* frame's, or that of errorOutput (failed) when there is no frame or the
\* spawn fails
OutputStatus(outcome) ==
  IF outcome \in {"no-frame", "spawn-error"} THEN "failed" ELSE outcome

\* The status the host's queue handler writes once runInContainer resolved
HandlerStatus(outcome) ==
  IF OutputStatus(outcome) = "failed" THEN "failed" ELSE "completed"

\* the then-callback of processTask
OnResolved(q, i) ==
  LET task == q.active[i]
      q1 == [q EXCEPT !.running = @ - 1, !.active = RemoveAt(@, i)]
  IN  Drain(Emit(q1, "completed", task))

\* A retry test that grants one retry too many
ShouldRetryInclusive(task) == task.retryCount <= task.maxRetries

\* the retry test of processTask's catch-callback
ShouldRetry(task) == task.retryCount < task.maxRetries

\* the catch-callback of processTask
OnRejected(q, i) ==
  LET task == q.active[i]
      q1 == [q EXCEPT !.running = @ - 1, !.active = RemoveAt(@, i)]
      q2 == IF ShouldRetry(task)
            THEN LET s1 == IncrementRetry(q1.store, task.id)
                     s2 == UpdateStatus(s1, task.id, "pending")
                     r  == Emit([q1 EXCEPT !.store = s2], "retry", task)
                 IN  [r EXCEPT !.timers[task.id] = @ + 1]
            ELSE Emit([q1 EXCEPT !.store = UpdateStatus(@, task.id, "failed")],
                      "failed", task)
  IN  Drain(q2)

SettleOf(task, outcome) ==
  [id |-> task.id, outcome |-> outcome, retryCount |-> task.retryCount,
   maxRetries |-> task.maxRetries]

\* The worker run of a running task ends and the host's handler returns: it
\* writes the task's final status, publishes the task event, and its promise
\* resolves
HandlerResolves(i, outcome) ==
  /\ i \in 1..Len(active)
  /\ LET task == active[i]
         q1 == [Q EXCEPT !.store = UpdateStatus(@, task.id, HandlerStatus(outcome))]
     IN  /\ Commit(OnResolved(q1, i))
         /\ settled' = SettleOf(task, outcome)
  /\ UNCHANGED <<concurrency, handler, offered, hostVars, busVars, auxVars>>

\* The host's handler throws (runInContainer raises before its promise
\* exists, or a store write or a publication in the handler raises)
HandlerThrows(i) ==
  /\ i \in 1..Len(active)
  /\ Commit(OnRejected(Q, i))
  /\ settled' = SettleOf(active[i], "threw")
  /\ UNCHANGED <<concurrency, handler, offered, hostVars, busVars, auxVars>>

\* The retry timer set by processTask's catch-callback fires
RetryTimer(t) ==
  /\ timers[t] > 0
  /\ LET q1 == [Q EXCEPT !.timers[t] = @ - 1]
     IN  IF store[t].status # "absent"
         THEN Commit(EnqueueOp(q1, FindById(store, t)))
         ELSE Commit(q1)
  /\ settled' = NoSettle
  /\ UNCHANGED <<concurrency, handler, offered, hostVars, busVars, auxVars>>

Next ==
  \/ SetHandler
  \/ \E t \in TaskIds : Enqueue(t)
  \/ Pause
  \/ Resume
  \/ \E i \in 1..MaxConcurrency, o \in WorkerOutcomes : HandlerResolves(i, o)
  \/ \E i \in 1..MaxConcurrency : HandlerThrows(i)
  \/ \E t \in TaskIds : RetryTimer(t)

Spec == Init /\ [][Next]_vars

\* the catch-callback of processTask when it is reached from the
\* then-callback, which has removed the task from the running ones already
CatchAfterThen(q, task) ==
  LET q1 == [q EXCEPT !.running = @ - 1]
      q2 == IF ShouldRetry(task)
            THEN LET s1 == IncrementRetry(q1.store, task.id)
                     s2 == UpdateStatus(s1, task.id, "pending")
                     r  == Emit([q1 EXCEPT !.store = s2], "retry", task)
                 IN  [r EXCEPT !.timers[task.id] = @ + 1]
            ELSE Emit([q1 EXCEPT !.store = UpdateStatus(@, task.id, "failed")],
                      "failed", task)
  IN  Drain(q2)

\* drain() up to the point where a `started` listener raises in the first
\* processTask: the task is shifted, counted and marked running, and the
\* handler is never called for it
DrainUntilRaise(q) ==
  LET task == Head(q.waiting)
      q1 == [q EXCEPT !.waiting = Tail(@), !.running = @ + 1]
      q2 == [q1 EXCEPT !.store = UpdateStatus(@, task.id, "running")]
  IN  Emit(q2, "started", task)

\* The handler's promise resolves and a `completed` listener raises: emit
\* raises in the then-callback, whose promise rejects, so the catch-callback
\* runs for the same task
CompletedListenerRaises(i, outcome) ==
  /\ i \in 1..Len(active)
  /\ LET task == active[i]
         q1 == [Q EXCEPT !.store = UpdateStatus(@, task.id, HandlerStatus(outcome))]
         q2 == [q1 EXCEPT !.running = @ - 1, !.active = RemoveAt(@, i)]
         q3 == Emit(q2, "completed", task)
     IN  /\ Commit(CatchAfterThen(q3, task))
         /\ settled' = SettleOf(task, outcome)
  /\ UNCHANGED <<concurrency, handler, offered, hostVars, busVars, auxVars>>

\* The handler's promise resolves and the drain that follows `completed`
\* raises (a `started` listener raises), so the catch-callback runs for the
\* task that completed
FollowUpDrainRaises(i, outcome) ==
  /\ i \in 1..Len(active)
  /\ ~paused
  /\ LET task == active[i]
         q1 == [Q EXCEPT !.store = UpdateStatus(@, task.id, HandlerStatus(outcome))]
         q2 == [q1 EXCEPT !.running = @ - 1, !.active = RemoveAt(@, i)]
         q3 == Emit(q2, "completed", task)
     IN  /\ CanDispatch(q3)
         /\ Commit(CatchAfterThen(DrainUntilRaise(q3), task))
         /\ settled' = SettleOf(task, outcome)
  /\ UNCHANGED <<concurrency, handler, offered, hostVars, busVars, auxVars>>

\* the outcomes the raising listeners are exercised with
RaisingOutcomes == {"completed", "no-frame"}

NextRaising ==
  \/ Next
  \/ \E i \in 1..MaxConcurrency, o \in RaisingOutcomes : CompletedListenerRaises(i, o)
  \/ \E i \in 1..MaxConcurrency, o \in RaisingOutcomes : FollowUpDrainRaises(i, o)

\* the queue with listeners that may raise
SpecRaising == Init /\ [][NextRaising]_vars

\* the outcomes the handler publishes task:completed for
CompletedOutcomes == {"completed", "partial"}

\* QualityConductor.review(task, output): the status it writes when it has
\* corrections
review(st, id, approved) == IF approved THEN st ELSE UpdateStatus(st, id, "running")

\* The worker run of a task of a draft agent type ends with outputs: the
\* handler writes the final status and publishes task:completed, Workflow's
\* handleTaskCompleted creates the draft and publishes conductor:review-request,
\* Quality's handleReviewRequest reviews the output, all inside the
\* publication; then the handler's promise resolves
HandlerResolvesReviewed(i, outcome, approved) ==
  /\ i \in 1..Len(active)
  /\ LET task == active[i]
         q1 == [Q EXCEPT !.store = UpdateStatus(@, task.id, HandlerStatus(outcome))]
         q2 == [q1 EXCEPT !.store = review(@, task.id, approved)]
     IN  /\ Commit(OnResolved(q2, i))
         /\ settled' = SettleOf(task, outcome)
  /\ UNCHANGED <<concurrency, handler, offered, hostVars, busVars, auxVars>>

NextReviewed ==
  \/ Next
  \/ \E i \in 1..MaxConcurrency, o \in CompletedOutcomes, approved \in BOOLEAN :
       HandlerResolvesReviewed(i, o, approved)

\* the queue with the conductors that review what a task produced
SpecReviewed == Init /\ [][NextReviewed]_vars

\* ---------------------------------------------------------------- host

\* the queue the host constructs
HostConcurrency == 3

\* the max-retries Inbox gives every task it creates
InboxMaxRetries == 3

\* the priorities the host's tasks are drawn from: the highest and the
\* lowest that Inbox's triage assigns
HostPriorities == {"urgent", "low"}

\* the ends of a worker run the host is exercised with: a completed
\* Agent-Output, or a spawn error
HostOutcomes == {"completed", "spawn-error"}

\* the limit start() passes to findPending
PendingLimit == 50

\* the row of an id no task has been inserted under yet
AbsentRow ==
  [status |-> "absent", priority |-> "normal", createdAt |-> 0, retryCount |-> 0,
   maxRetries |-> 0, completedAt |-> FALSE]

\* taskRepo.insert
Insert(st, id, p, c, m) == [st EXCEPT ![id] = Row(p, c, m)]

Present(st) == {t \in TaskIds : st[t].status # "absent"}

\* the elements of a set of ids in ascending order
RECURSIVE Ascending(_)
Ascending(S) ==
  IF S = {} THEN <<>>
  ELSE LET m == CHOOSE x \in S : \A y \in S : x <= y
       IN  <<m>> \o Ascending(S \ {m})

\* taskRepo.findPending(limit): the pending and queued rows ordered by
\* priority rank, then created-at
FindPending(st, limit) ==
  LET ids == Ascending({t \in TaskIds : st[t].status \in {"pending", "queued"}})
      sorted == SortWaiting([i \in 1..Len(ids) |-> FindById(st, ids[i])])
  IN  SubSeq(sorted, 1, IF Len(sorted) < limit THEN Len(sorted) ELSE limit)

RECURSIVE EnqueueAll(_, _)
EnqueueAll(q, tasks) ==
  IF tasks = <<>> THEN q
  ELSE EnqueueAll(EnqueueOp(q, Head(tasks)), Tail(tasks))

\* the host's subscriber of task:created
HostOnTaskCreated(q, task, routed) ==
  IF routed THEN EnqueueOp(q, task) ELSE q

\* publish("task:created") as the started host delivers it: first to the
\* host's subscriber, then to Workflow's handleTaskCreated, which for a task
\* that is not complex publishes task:created again, with routed set, from
\* inside the delivery, whether or not the event it handles is routed
\* already. The nesting ends when the call stack is exhausted; the RangeError
\* is raised inside the async handleTaskCreated and becomes a rejected
\* promise, and the stack unwinds.
RECURSIVE PublishTaskCreated(_, _, _, _)
PublishTaskCreated(q, task, routed, depth) ==
  LET q1 == HostOnTaskCreated(q, task, routed)
  IN  IF depth < MaxNesting
      THEN PublishTaskCreated(q1, task, TRUE, depth + 1)
      ELSE q1

\* The host process once index.ts is loaded: the queue is constructed and its
\* handler installed; the store holds the tasks, if any, that a previous run
\* left pending
InitHost ==
  /\ concurrency = HostConcurrency
  /\ handler = TRUE
  /\ paused = FALSE
  /\ \E k \in 0..MaxTasks, prio \in [TaskIds -> HostPriorities], created \in CreationTimes :
       store = [t \in TaskIds |->
                  IF t <= k THEN Row(prio[t], created[t], InboxMaxRetries) ELSE AbsentRow]
  /\ waiting = <<>>
  /\ active = <<>>
  /\ running = 0
  /\ timers = [t \in TaskIds |-> 0]
  /\ emitted = <<>>
  /\ settled = NoSettle
  /\ count = [t \in TaskIds |-> [e \in EventNames |-> 0]]
  /\ completedSeq = <<>>
  /\ coWaited = {}
  /\ offered = <<>>
  /\ hostStarted = FALSE
  /\ inbound = 0
  /\ subs = <<>>
  /\ publication = NoPublication
  /\ AuxInit

\* start(): the conductors subscribe, then every pending task is enqueued
HostStart ==
  /\ ~hostStarted
  /\ hostStarted' = TRUE
  /\ LET pending == FindPending(store, PendingLimit)
     IN  /\ Commit(EnqueueAll(Q, pending))
         /\ offered' = offered \o [i \in 1..Len(pending) |-> pending[i].id]
  /\ settled' = NoSettle
  /\ UNCHANGED <<concurrency, handler, inbound, busVars, auxVars>>

\* Inbox handles a received message: it inserts the task and publishes
\* task:created
InboxCreatesTask(p, c) ==
  /\ hostStarted
  /\ inbound < MaxInbound
  /\ inbound' = inbound + 1
  /\ \E t \in TaskIds \ Present(store) :
       /\ \A u \in TaskIds : u < t => u \in Present(store)
       /\ \A u \in Present(store) : store[u].createdAt <= c
       /\ \/ t = 1 /\ c = 1
          \/ t > 1 /\ c - store[t - 1].createdAt \in {0, 1}
       /\ LET st1 == Insert(store, t, p, c, InboxMaxRetries)
              q1 == [Q EXCEPT !.store = st1]
          IN  Commit(PublishTaskCreated(q1, FindById(st1, t), FALSE, 0))
       /\ offered' = offered \o [i \in 1..MaxNesting |-> t]
  /\ settled' = NoSettle
  /\ UNCHANGED <<concurrency, handler, hostStarted, busVars, auxVars>>

NextHost ==
  \/ HostStart
  \/ \E p \in HostPriorities, c \in 1..MaxTasks : InboxCreatesTask(p, c)
  \/ \E i \in 1..HostConcurrency, o \in HostOutcomes : HandlerResolves(i, o)
  \/ \E i \in 1..HostConcurrency : HandlerThrows(i)
  \/ \E t \in TaskIds : RetryTimer(t)

SpecHost == InitHost /\ [][NextHost]_vars

\* ---------------------------------------------------------------- bus

\* the positions of the subscriptions emit(type) calls, in order
ListenersOf(type) ==
  SelectSeq([i \in 1..Len(subs) |-> i], LAMBDA i : subs[i].type = type)

RECURSIVE CallListeners(_, _, _, _, _, _)
RECURSIVE PublishFrom(_, _, _, _)

\* EventEmitter.emit calls the listeners ls in order with publication p (made
\* by `by` at nesting depth d); a listener that throws ends the call with its
\* exception. A listener that publishes from inside its handler, as
\* Workflow's handleTaskCreated does, is an async function called with
\* `void`: its publication is delivered, listener by listener, before emit
\* goes on to the next listener of p, and what is raised inside it (by a
\* subscriber, or by the exhausted call stack) becomes a rejected promise.
\* s.observed is the log of the deliveries, s.n the number of publications.
CallListeners(ls, type, p, by, d, s) ==
  IF ls = <<>> THEN [s EXCEPT !.threw = FALSE]
  ELSE LET l == Head(ls)
           s1 == [s EXCEPT !.observed = Append(@, [sub |-> l, pub |-> p, by |-> by])]
       IN  IF subs[l].throws THEN [s1 EXCEPT !.threw = TRUE]
           ELSE IF subs[l].republishes /\ d < MaxNesting
                THEN CallListeners(Tail(ls), type, p, by, d, PublishFrom(type, l, d + 1, s1))
                ELSE CallListeners(Tail(ls), type, p, by, d, s1)

\* IpcBus.publish called by `by` at nesting depth d: emit(type), then emit("*")
PublishFrom(type, by, d, s) ==
  LET p == s.n + 1
      r1 == CallListeners(ListenersOf(type), type, p, by, d, [s EXCEPT !.n = p])
  IN  IF r1.threw THEN r1
      ELSE CallListeners(ListenersOf(Wildcard), type, p, by, d, r1)

\* a publisher that is not a subscriber
Outside == 0

\* the bus once ipc.ts is loaded; the queue is the idle queue of the host
InitBusButAux ==
  /\ concurrency = HostConcurrency
  /\ handler = TRUE
  /\ paused = FALSE
  /\ store = [t \in TaskIds |-> AbsentRow]
  /\ waiting = <<>>
  /\ active = <<>>
  /\ running = 0
  /\ timers = [t \in TaskIds |-> 0]
  /\ emitted = <<>>
  /\ settled = NoSettle
  /\ count = [t \in TaskIds |-> [e \in EventNames |-> 0]]
  /\ completedSeq = <<>>
  /\ coWaited = {}
  /\ offered = <<>>
  /\ hostStarted = FALSE
  /\ inbound = 0
  /\ subs = <<>>
  /\ publication = NoPublication

InitBus ==
  /\ InitBusButAux
  /\ AuxInit

\* subscribe(type, listener)
Subscribe(type, throws) ==
  /\ Len(subs) < MaxSubs
  /\ subs' = Append(subs, [type |-> type, throws |-> throws, republishes |-> FALSE])
  /\ publication' = NoPublication
  /\ UNCHANGED <<queueVars, hostVars, auxVars>>

\* subscribe(type, listener) with a listener that publishes an event of the
\* type it handles from inside the handler; the host has one such subscriber
\* (Workflow), and so has the bus here
SubscribeRepublisher(type) ==
  /\ Len(subs) < MaxSubs
  /\ \A i \in 1..Len(subs) : ~subs[i].republishes
  /\ subs' = Append(subs, [type |-> type, throws |-> FALSE, republishes |-> TRUE])
  /\ publication' = NoPublication
  /\ UNCHANGED <<queueVars, hostVars, auxVars>>

\* subscribeAll(listener)
SubscribeAll(throws) ==
  /\ Len(subs) < MaxSubs
  /\ subs' = Append(subs, [type |-> Wildcard, throws |-> throws,
                            republishes |-> FALSE])
  /\ publication' = NoPublication
  /\ UNCHANGED <<queueVars, hostVars, auxVars>>

\* the function subscribe and subscribeAll return
Unsubscribe(i) ==
  /\ i \in 1..Len(subs)
  /\ subs' = RemoveAt(subs, i)
  /\ publication' = NoPublication
  /\ UNCHANGED <<queueVars, hostVars, auxVars>>

\* publish(type, source, payload)
Publish(type) ==
  /\ LET r == PublishFrom(type, Outside, 0, [observed |-> <<>>, n |-> 0, threw |-> FALSE])
         first == SelectSeq(r.observed, LAMBDA e : e.pub = 1)
     IN  publication' = [type |-> type,
                         received |-> [k \in 1..Len(first) |-> first[k].sub],
                         result |-> IF r.threw THEN "threw" ELSE "returned",
                         observed |-> r.observed]
  /\ UNCHANGED <<queueVars, hostVars, subs, auxVars>>

NextBus ==
  \/ \E type \in BusEventTypes, throws \in BOOLEAN : Subscribe(type, throws)
  \/ \E type \in BusEventTypes : SubscribeRepublisher(type)
  \/ \E throws \in BOOLEAN : SubscribeAll(throws)
  \/ \E i \in 1..MaxSubs : Unsubscribe(i)
  \/ \E type \in BusEventTypes : Publish(type)

SpecBus == InitBus /\ [][NextBus]_vars

\* ---------------------------------------------------------------- conductors

\* BaseConductor.start: registerSubscriptions is run unless the conductor is
\* running; c.subscribed counts its subscriptions on the bus, c.unsubscribers
\* the functions kept to remove them
BaseStart(c, role) ==
  IF c.running THEN c
  ELSE [c EXCEPT !.running = TRUE,
                 !.unsubscribers = @ + SubscriptionsOf(role),
                 !.subscribed = @ + SubscriptionsOf(role)]

\* BaseConductor.stop: every kept function is called and the list emptied
BaseStop(c) ==
  [c EXCEPT !.running = FALSE, !.subscribed = @ - c.unsubscribers,
            !.unsubscribers = 0]

\* setInterval: a new timer, owned by role
SetInterval(role) ==
  /\ nextInterval < MaxIntervals
  /\ nextInterval' = nextInterval + 1
  /\ intervals' = intervals \cup {[id |-> nextInterval + 1, owner |-> role]}

\* clearInterval(id)
ClearInterval(id) == intervals' = {t \in intervals : t.id # id}

\* ChiefConductor.start: super.start(), then the briefing timer is set and
\* its id kept
ChiefStart ==
  /\ SetInterval("chief")
  /\ conductors' = [conductors EXCEPT
                      !["chief"] = [BaseStart(@, "chief") EXCEPT !.timer = nextInterval + 1]]
  /\ UNCHANGED <<queueVars, hostVars, busVars, restartVars, dbVars, repoVars, extVars>>

\* LearningConductor.start (BaseConductor.start): registerSubscriptions
\* subscribes and sets the analysis timer
LearningStart ==
  /\ IF conductors["learning"].running
     THEN UNCHANGED conductorVars
     ELSE /\ SetInterval("learning")
          /\ conductors' = [conductors EXCEPT
                              !["learning"] = [BaseStart(@, "learning") EXCEPT
                                                 !.timer = nextInterval + 1]]
  /\ UNCHANGED <<queueVars, hostVars, busVars, restartVars, dbVars, repoVars, extVars>>

\* WorkflowConductor.start (BaseConductor.start)
WorkflowStart ==
  /\ conductors' = [conductors EXCEPT !["workflow"] = BaseStart(@, "workflow")]
  /\ UNCHANGED <<queueVars, hostVars, busVars, intervals, nextInterval, restartVars,
                 dbVars, repoVars, extVars>>

\* ChiefConductor.stop and LearningConductor.stop: the timer whose id is kept
\* is cleared, then super.stop(); WorkflowConductor.stop is BaseConductor.stop
ConductorStop(role) ==
  /\ ClearInterval(conductors[role].timer)
  /\ conductors' = [conductors EXCEPT ![role] = [BaseStop(@) EXCEPT !.timer = NoInterval]]
  /\ UNCHANGED <<queueVars, hostVars, busVars, nextInterval, restartVars, dbVars,
                 repoVars, extVars>>

\* the conductors once the host is loaded
InitConductors == InitBus

NextConductors ==
  \/ ChiefStart
  \/ LearningStart
  \/ WorkflowStart
  \/ \E role \in ConductorRoles : ConductorStop(role)

SpecConductors == InitConductors /\ [][NextConductors]_vars

\* ---------------------------------------------------------------- restart

\* the number of rows findPending(limit) returns out of n pending or queued
\* rows (LIMIT ?)
PendingReturned(n, limit) == IF n < limit THEN n ELSE limit

\* a run of the host ends and leaves one more task pending or queued
LeavePending ==
  /\ ~restarted
  /\ backlog < MaxBacklog
  /\ backlog' = backlog + 1
  /\ UNCHANGED <<queueVars, hostVars, busVars, conductorVars, restarted, reEnqueued,
                 dispatched, dbVars, repoVars, extVars>>

\* start() in the next run: every row findPending(50) returns is enqueued
HostRestart ==
  /\ ~restarted
  /\ restarted' = TRUE
  /\ reEnqueued' = PendingReturned(backlog, PendingLimit)
  /\ UNCHANGED <<queueVars, hostVars, busVars, conductorVars, backlog, dispatched,
                 dbVars, repoVars, extVars>>

\* the queue dispatches the next of the re-enqueued tasks
DispatchNext ==
  /\ dispatched < reEnqueued
  /\ dispatched' = dispatched + 1
  /\ UNCHANGED <<queueVars, hostVars, busVars, conductorVars, backlog, restarted,
                 reEnqueued, dbVars, repoVars, extVars>>

InitRestart == InitBus

NextRestart == LeavePending \/ HostRestart \/ DispatchNext

SpecRestart == InitRestart /\ [][NextRestart]_vars

\* ---------------------------------------------------------------- task store

TaskStatuses == {"pending", "queued", "running", "completed", "failed", "cancelled"}

\* the statuses the callers of taskRepo.insert pass: Inbox and Workflow insert
\* pending tasks
InsertStatuses == {"pending"}

\* everything of the queue but the store
queueButStore == <<concurrency, handler, paused, waiting, active, running, timers,
                   emitted, settled, count, completedSeq, coWaited, offered>>

\* taskRepo.insert(task) under the next free id
StoreInsert(status, p) ==
  /\ \E t \in TaskIds \ Present(store) :
       /\ \A u \in TaskIds : u < t => u \in Present(store)
       /\ store' = [Insert(store, t, p, t, InboxMaxRetries) EXCEPT ![t].status = status]
  /\ UNCHANGED <<queueButStore, hostVars, busVars, auxVars>>

\* taskRepo.updateStatus(id, status), by the queue, the host's handler or
\* Quality's review (which moves a completed task back to running)
StoreUpdateStatus(t, status) ==
  /\ store' = UpdateStatus(store, t, status)
  /\ reopened' = IF store[t].status \in TerminalStatuses /\ status \notin TerminalStatuses
                 THEN reopened \cup {t} ELSE reopened
  /\ UNCHANGED <<queueButStore, hostVars, busVars, conductorVars, restartVars, repoVars, extVars>>

\* taskRepo.incrementRetry(id)
StoreIncrementRetry(t) ==
  /\ store[t].retryCount < MaxRetriesBound
  /\ store' = IncrementRetry(store, t)
  /\ UNCHANGED <<queueButStore, hostVars, busVars, auxVars>>

InitStore == InitBus

NextStore ==
  \/ \E status \in InsertStatuses, p \in HostPriorities : StoreInsert(status, p)
  \/ \E t \in TaskIds, status \in TaskStatuses : StoreUpdateStatus(t, status)
  \/ \E t \in TaskIds : StoreIncrementRetry(t)

SpecStore == InitStore /\ [][NextStore]_vars

\* ---------------------------------------------------------------- prompt versions

PromptsPresent(ps) == {i \in PromptIds : ps[i] # AbsentPrompt}

\* SELECT * FROM prompt_versions WHERE name = ? AND active = 1, every row of it
ActiveVersions(ps, name) ==
  {i \in PromptsPresent(ps) : ps[i].name = name /\ ps[i].active}

\* the two UPDATE statements of promptRepo.activate
DeactivateSiblings(ps, id) ==
  [i \in PromptIds |->
     IF ps[i] # AbsentPrompt /\ ps[i].name = ps[id].name
     THEN [ps[i] EXCEPT !.active = FALSE] ELSE ps[i]]

SetActive(ps, id) == [ps EXCEPT ![id].active = TRUE]

\* promptRepo.insert(prompt): the row is written with the active flag it is
\* given; a second row of one (name, version) violates the UNIQUE constraint
\* and a second row of one id the primary key, and then the call throws
PromptInsert(id, name, version, isActive) ==
  /\ prompts[id] = AbsentPrompt
  /\ \A i \in PromptsPresent(prompts) :
       ~(prompts[i].name = name /\ prompts[i].version = version)
  /\ prompts' = [prompts EXCEPT ![id] =
                   [name |-> name, version |-> version, active |-> isActive]]
  /\ UNCHANGED <<queueVars, hostVars, busVars, conductorVars, restartVars, dbVars,
                 draftVars, extVars>>

\* promptRepo.activate(id): throws for an unknown id, else both updates in
\* one transaction
PromptActivate(id) ==
  /\ prompts' = IF prompts[id] = AbsentPrompt THEN prompts
                ELSE SetActive(DeactivateSiblings(prompts, id), id)
  /\ UNCHANGED <<queueVars, hostVars, busVars, conductorVars, restartVars, dbVars,
                 draftVars, extVars>>

InitPrompts == InitBus

NextPrompts ==
  \/ \E id \in PromptIds, name \in PromptNames, version \in 1..MaxVersion,
        isActive \in BOOLEAN : PromptInsert(id, name, version, isActive)
  \/ \E id \in PromptIds : PromptActivate(id)

SpecPrompts == InitPrompts /\ [][NextPrompts]_vars

\* ---------------------------------------------------------------- drafts and approval

\* everything but the drafts, the corrections and the engine's last call
butDrafts ==
  <<queueVars, hostVars, busVars, conductorVars, restartVars, dbVars, prompts, extVars>>

\* String.prototype.toLowerCase on a word
LowerCase(w) == IF w = "Dear" THEN "dear" ELSE w

\* !edited || edited.trim() === ""
IsBlank(body) == \A i \in 1..Len(body) : body[i] = Blank

\* body.toLowerCase().split(/\s+/): the words between the runs of whitespace,
\* with an empty word before a leading and after a trailing run, and the one
\* empty word for the empty string
WordsOf(body) ==
  IF body = NoBody THEN <<"">>
  ELSE (IF body[1] = Blank THEN <<"">> ELSE <<>>)
       \o [i \in 1..Cardinality({j \in 1..Len(body) : body[j] # Blank}) |->
            LowerCase(body[CHOOSE j \in 1..Len(body) :
                             /\ body[j] # Blank
                             /\ Cardinality({k \in 1..j : body[k] # Blank}) = i])]
       \o (IF body[Len(body)] = Blank THEN <<"">> ELSE <<>>)

\* classifyChange(original, edited)
classifyChange(original, edited) ==
  IF IsBlank(edited) THEN "rejection"
  ELSE LET originalWords == WordsOf(original)
           editedWords == WordsOf(edited)
           totalWords == IF Len(originalWords) > Len(editedWords)
                         THEN Len(originalWords) ELSE Len(editedWords)
           originalSet == Range(originalWords)
           editedSet == Range(editedWords)
           changedCount == Cardinality(editedSet \ originalSet)
                           + Cardinality(originalSet \ editedSet)
       IN  \* changeRatio = changedCount / (totalWords * 2)
           IF changedCount * 10 > 5 * totalWords * 2 THEN "major_rewrite"
           ELSE IF changedCount * 10 > 2 * totalWords * 2 THEN "tone_change"
           ELSE "minor_edit"

\* draftRepo.insert(draft)
DraftInsert(ds, id, body, originalBody, status) ==
  [ds EXCEPT ![id] = [status |-> status, body |-> body, originalBody |-> originalBody,
                      insertedBody |-> body, qualityScore |-> NoScore,
                      autoApproveMatch |-> NoRule]]

\* draftRepo.updateStatus(id, status): an UPDATE ... WHERE id = ?
DraftSetStatus(ds, id, status) ==
  IF ds[id] = AbsentDraft THEN ds ELSE [ds EXCEPT ![id].status = status]

\* a draftRepo.updateBody that would write original_body as well
UpdateBodyAndOriginal(ds, id, body) ==
  IF ds[id] = AbsentDraft THEN ds
  ELSE [ds EXCEPT ![id].body = body, ![id].originalBody = body]

\* draftRepo.updateBody(id, body)
UpdateBody(ds, id, body) ==
  IF ds[id] = AbsentDraft THEN ds ELSE [ds EXCEPT ![id].body = body]

\* draftRepo.updateQuality(id, score, notes)
UpdateQuality(ds, id, score) ==
  IF ds[id] = AbsentDraft THEN ds ELSE [ds EXCEPT ![id].qualityScore = score]

\* a review guard that would not look at the status
ReviewableInAnyStatus(ds, id) == ds[id] # AbsentDraft

\* the negation of `!draft || draft.status !== "pending_review"`
Reviewable(ds, id) == ds[id] # AbsentDraft /\ ds[id].status = "pending_review"

\* a markDraftSent that would send an edited draft again
CanMarkSentEdited(status) == status \in {"approved", "auto_approved", "edited_and_sent"}

\* db.status === "approved" || db.status === "auto_approved"
CanMarkSent(status) == status \in {"approved", "auto_approved"}

Call(op, id, reason, returned, published) ==
  [op |-> op, id |-> id, reason |-> reason, rule |-> NoRule, returned |-> returned,
   published |-> published]

\* what the four review operations return for a draft they do not accept
Refused(op, id, reason) ==
  /\ engineCall' = Call(op, id, reason, "null", <<>>)
  /\ UNCHANGED <<drafts, corrections>>

\* createDraft(task, output): the draft is inserted under a fresh id with
\* body and original body both the output's body, in pending_review
CreateDraft(body) ==
  /\ \E id \in DraftIds :
       /\ drafts[id] = AbsentDraft
       /\ \A e \in DraftIds : e < id => drafts[e] # AbsentDraft
       /\ drafts' = DraftInsert(drafts, id, body, body, "pending_review")
       /\ engineCall' = Call("createDraft", id, "", "draft", <<"draft:created">>)
  /\ UNCHANGED <<corrections, butDrafts>>

\* approveDraft(draftId)
ApproveDraft(id) ==
  /\ IF ~Reviewable(drafts, id) THEN Refused("approveDraft", id, "")
     ELSE /\ drafts' = DraftSetStatus(drafts, id, "approved")
          /\ engineCall' = Call("approveDraft", id, "", "draft", <<"draft:approved">>)
          /\ UNCHANGED corrections
  /\ UNCHANGED butDrafts

\* rejectDraft(draftId, reason)
RejectDraft(id, reason) ==
  /\ Reviewable(drafts, id) => Len(corrections) < MaxCorrections
  /\ IF ~Reviewable(drafts, id) THEN Refused("rejectDraft", id, reason)
     ELSE /\ drafts' = DraftSetStatus(drafts, id, "rejected")
          /\ corrections' = Append(corrections,
               [draftId |-> id, originalBody |-> drafts[id].originalBody,
                editedBody |-> NoBody, changeType |-> "rejection", feedback |-> reason])
          /\ engineCall' = Call("rejectDraft", id, reason, "draft", <<"draft:rejected">>)
  /\ UNCHANGED butDrafts

\* editAndApproveDraft(draftId, editedBody, editedSubject, feedback)
EditAndApproveDraft(id, editedBody) ==
  /\ Reviewable(drafts, id) => Len(corrections) < MaxCorrections
  /\ IF ~Reviewable(drafts, id) THEN Refused("editAndApproveDraft", id, "")
     ELSE /\ drafts' = DraftSetStatus(UpdateBody(drafts, id, editedBody), id,
                                      "edited_and_sent")
          /\ corrections' = Append(corrections,
               [draftId |-> id, originalBody |-> drafts[id].originalBody,
                editedBody |-> editedBody,
                changeType |-> classifyChange(drafts[id].originalBody, editedBody),
                feedback |-> ""])
          /\ engineCall' = Call("editAndApproveDraft", id, "", "draft",
                                <<"draft:edited", "correction:recorded">>)
  /\ UNCHANGED butDrafts

\* markDraftSent(draftId)
MarkDraftSent(id) ==
  /\ IF drafts[id] = AbsentDraft
     THEN /\ engineCall' = Call("markDraftSent", id, "", "void", <<>>)
          /\ UNCHANGED drafts
     ELSE /\ drafts' = IF CanMarkSent(drafts[id].status)
                       THEN DraftSetStatus(drafts, id, "sent") ELSE drafts
          /\ engineCall' = Call("markDraftSent", id, "", "void", <<"draft:sent">>)
  /\ UNCHANGED <<corrections, butDrafts>>

\* autoApproveDraft(draftId, matchedRule): the rule goes into the payload of
\* draft:auto_approved and into the log line
AutoApproveDraft(id, matchedRule) ==
  /\ IF ~Reviewable(drafts, id)
     THEN /\ engineCall' = [Call("autoApproveDraft", id, "", "null", <<>>)
                              EXCEPT !.rule = matchedRule]
          /\ UNCHANGED <<drafts, corrections>>
     ELSE /\ drafts' = DraftSetStatus(drafts, id, "auto_approved")
          /\ engineCall' = [Call("autoApproveDraft", id, "", "draft",
                                 <<"draft:auto_approved">>)
                              EXCEPT !.rule = matchedRule]
          /\ UNCHANGED corrections
  /\ UNCHANGED butDrafts

\* draftRepo.updateBody(id, body) called on the repository
DraftUpdateBody(id, body) ==
  /\ drafts' = UpdateBody(drafts, id, body)
  /\ engineCall' = NoCall
  /\ UNCHANGED <<corrections, butDrafts>>

\* draftRepo.updateStatus(id, status) called on the repository
DraftUpdateStatus(id, status) ==
  /\ drafts' = DraftSetStatus(drafts, id, status)
  /\ engineCall' = NoCall
  /\ UNCHANGED <<corrections, butDrafts>>

\* draftRepo.updateQuality(id, score, notes), by Quality's review
DraftUpdateQuality(id, score) ==
  /\ drafts' = UpdateQuality(drafts, id, score)
  /\ engineCall' = NoCall
  /\ UNCHANGED <<corrections, butDrafts>>

InitDrafts == InitBus

NextDrafts ==
  \/ \E body \in CreateBodies : CreateDraft(body)
  \/ \E id \in DraftIds : ApproveDraft(id)
  \/ \E id \in DraftIds, reason \in Reasons : RejectDraft(id, reason)
  \/ \E id \in DraftIds, body \in EditedBodies : EditAndApproveDraft(id, body)
  \/ \E id \in DraftIds : MarkDraftSent(id)
  \/ \E id \in DraftIds, rule \in Rules : AutoApproveDraft(id, rule)
  \/ \E id \in DraftIds, body \in EditedBodies : DraftUpdateBody(id, body)
  \/ \E id \in DraftIds, status \in DraftStatuses : DraftUpdateStatus(id, status)
  \/ \E id \in DraftIds, score \in Scores : DraftUpdateQuality(id, score)

SpecDrafts == InitDrafts /\ [][NextDrafts]_vars

\* ---------------------------------------------------------------- worker invocation

\* everything but the worker run
butRunner ==
  <<queueVars, hostVars, busVars, conductorVars, restartVars, dbVars, repoVars, skillVars,
    moreVars>>

\* A stdout is its sequence of tokens: the two marker lines, a line of debug
\* text, or a document written after a start marker. A text is the sequence
\* of its parts, <<>> the empty string.
Token(kind, parses, status, summary) ==
  [kind |-> kind, parses |-> parses, status |-> status, summary |-> summary]

OUTPUT_START_MARKER == Token("start", FALSE, "", <<>>)

OUTPUT_END_MARKER == Token("end", FALSE, "", <<>>)

DebugLine == Token("debug", FALSE, "", <<>>)

\* the documents a worker writes between the markers: two that match
\* Agent-Output (the second with the summary ""), one that is no JSON and
\* one whose status is none of the enum
F1 == Token("doc", TRUE, "completed", <<"Handled request">>)

F2 == Token("doc", TRUE, "partial", <<>>)

BadJson == Token("doc", FALSE, "", <<>>)

BadShape == Token("doc", TRUE, "unknown", <<"test">>)

Documents == {F1, F2, BadJson, BadShape}

\* the exit codes the close event carries; null after a signal
NullExit == 0 - 1

ExitCodes == {0, 1, NullExit}

\* AgentOutputSchema.safeParse(parsed).success: the status is of the enum and
\* the summary is a string, the empty one included
SchemaValid(doc) == doc.status \in {"completed", "failed", "partial", "escalated"}

\* JSON.parse(jsonStr) of the trimmed text between two markers does not throw
JsonParses(jsonStr) ==
  Len(jsonStr) = 1 /\ jsonStr[1].kind = "doc" /\ jsonStr[1].parses

\* raw.indexOf(marker, from): 0 for -1
IndexOf(raw, kind, from) ==
  IF \E i \in from..Len(raw) : raw[i].kind = kind
  THEN CHOOSE i \in from..Len(raw) :
         /\ raw[i].kind = kind
         /\ \A j \in from..(i - 1) : raw[j].kind # kind
  ELSE 0

RECURSIVE ExtractFrom(_, _, _)
\* the loop of extractOutputs
ExtractFrom(raw, searchFrom, outputs) ==
  LET startIdx == IndexOf(raw, "start", searchFrom)
      jsonStart == startIdx + 1
      endIdx == IndexOf(raw, "end", jsonStart)
      jsonStr == SubSeq(raw, jsonStart, endIdx - 1)
  IN  IF startIdx = 0 \/ endIdx = 0 THEN outputs
      ELSE ExtractFrom(raw, endIdx + 1,
             IF JsonParses(jsonStr) /\ SchemaValid(jsonStr[1])
             THEN Append(outputs, [status |-> jsonStr[1].status,
                                   summary |-> jsonStr[1].summary])
             ELSE outputs)

\* extractOutputs(raw)
extractOutputs(raw) == ExtractFrom(raw, 1, <<>>)

\* String(exitCode) in the template literal
CodeText(exitCode) ==
  IF exitCode = NullExit THEN "null" ELSE IF exitCode = 0 THEN "0" ELSE "1"

\* errorOutput(task, error, durationMs); the texts of the model are shorter
\* than the 200 characters error.slice(0, 200) keeps
errorOutput(error) ==
  [status |-> "failed", summary |-> <<"Agent execution failed: ">> \o error]

\* a data handler that would keep the first frame it sees
KeepFirstOutput(parsed, last) ==
  IF last # NoOutput THEN last
  ELSE IF Len(parsed) > 0 THEN parsed[1] ELSE last

\* lastOutput = parsed[parsed.length - 1] if parsed.length > 0
LastOf(parsed, last) == IF Len(parsed) > 0 THEN parsed[Len(parsed)] ELSE last

\* container.stdout.on("data"): a chunk of one token. A document follows a
\* start marker; any other text is a debug line.
RunnerData(tok) ==
  /\ child = "running"
  /\ tok.kind = "doc" => (stdout # <<>> /\ stdout[Len(stdout)].kind = "start")
  /\ stdout' = IF Len(stdout) < MaxStdout THEN Append(stdout, tok) ELSE stdout
  /\ lastOutput' = LastOf(extractOutputs(stdout'), lastOutput)
  /\ timeoutId' = IF Len(extractOutputs(stdout')) > 0 THEN "armed" ELSE timeoutId
  /\ UNCHANGED <<stderr, child, killTimers, signals, result, butRunner>>

\* container.stderr.on("data") with a line that is not blank
RunnerStderr(line) ==
  /\ child = "running"
  /\ Len(stderr) < MaxStderr
  /\ stderr' = Append(stderr, line)
  /\ UNCHANGED <<stdout, lastOutput, child, timeoutId, killTimers, signals, result,
                 butRunner>>

\* the callback of resetTimeout's timer: SIGTERM, and a timer of 10 s
RunnerTimeout ==
  /\ timeoutId = "armed"
  /\ Cardinality({i \in 1..Len(signals) : signals[i] = "SIGTERM"}) < MaxTimeouts
  /\ timeoutId' = "fired"
  /\ signals' = IF child = "running" THEN Append(signals, "SIGTERM") ELSE signals
  /\ killTimers' = killTimers + 1
  /\ UNCHANGED <<stdout, stderr, lastOutput, child, result, butRunner>>

\* the callback of the 10 s timer: container.kill("SIGKILL"), which sends
\* nothing to a child that has exited
RunnerKillTimer ==
  /\ killTimers > 0
  /\ killTimers' = killTimers - 1
  /\ signals' = IF child = "running" THEN Append(signals, "SIGKILL") ELSE signals
  /\ UNCHANGED <<stdout, stderr, lastOutput, child, timeoutId, result, butRunner>>

\* container.on("close"); the exit code is null if a signal ended the child
RunnerClose(exitCode) ==
  /\ child = "running"
  /\ exitCode = NullExit => signals # <<>>
  /\ child' = "closed"
  /\ timeoutId' = "cleared"
  /\ lastOutput' = IF lastOutput = NoOutput
                   THEN LastOf(extractOutputs(stdout), lastOutput) ELSE lastOutput
  /\ result' =
       IF lastOutput' # NoOutput
       THEN [output |-> lastOutput',
             exitCode |-> IF exitCode = NullExit THEN 0 ELSE exitCode, from |-> "frame"]
       ELSE [output |-> errorOutput(
                          IF stderr # <<>> THEN stderr
                          ELSE <<"No output from container. Exit code: ",
                                 CodeText(exitCode)>>),
             exitCode |-> IF exitCode = NullExit THEN 1 ELSE exitCode, from |-> "close"]
  /\ UNCHANGED <<stdout, stderr, killTimers, signals, butRunner>>

\* container.on("error"): docker could not be spawned
RunnerError ==
  /\ child = "running"
  /\ stdout = <<>> /\ stderr = <<>> /\ signals = <<>>
  /\ child' = "failed"
  /\ timeoutId' = "cleared"
  /\ result' = [output |-> errorOutput(<<"Container spawn failed: ", "spawn docker ENOENT">>),
                exitCode |-> 1, from |-> "error"]
  /\ UNCHANGED <<stdout, stderr, lastOutput, killTimers, signals, butRunner>>

InitRunner == InitBus

NextRunner ==
  \/ \E tok \in {OUTPUT_START_MARKER, OUTPUT_END_MARKER, DebugLine} \cup Documents :
       RunnerData(tok)
  \/ RunnerStderr("docker: out of memory")
  \/ RunnerTimeout
  \/ RunnerKillTimer
  \/ \E exitCode \in ExitCodes : RunnerClose(exitCode)
  \/ RunnerError

SpecRunner == InitRunner /\ [][NextRunner]_vars

\* ---------------------------------------------------------------- skills

\* everything but the project and the skills engine's state
butSkills ==
  <<queueVars, hostVars, busVars, conductorVars, restartVars, dbVars, repoVars, runnerVars,
    moreVars>>

SkillNames == {"telegram", "voice", "slack"}

\* The manifests of the skills directory. file_ops holds the paths of delete
\* operations; no manifest of the model has npm_dependencies or env_additions.
Manifests ==
  [telegram |-> [skill |-> "telegram", adds |-> {"lib/x.ts"}, modifies |-> {},
                 file_ops |-> {}, depends |-> <<>>, conflicts |-> <<>>,
                 post_apply |-> TRUE, test |-> FALSE],
   voice |-> [skill |-> "voice", adds |-> {}, modifies |-> {"README.md"},
              file_ops |-> {}, depends |-> <<"telegram">>, conflicts |-> <<>>,
              post_apply |-> FALSE, test |-> TRUE],
   slack |-> [skill |-> "slack", adds |-> {"README.md"}, modifies |-> {},
              file_ops |-> {"lib/x.ts"}, depends |-> <<>>, conflicts |-> <<"telegram">>,
              post_apply |-> FALSE, test |-> TRUE]]

\* the content of a project file no skill has written
Original == "original"

\* the text git merge-file leaves when both sides changed the base
ConflictText == "<<<<<<< >>>>>>>"

\* the content of the skill's copy of a file under add/ or modify/
SkillFile(name) == name

\* the steps of applySkill's try block, in order
ApplySteps == <<"file_ops", "adds", "modifies", "post_apply", "test", "record">>

StepIndex(step) == CHOOSE i \in 1..Len(ApplySteps) : ApplySteps[i] = step

\* the steps in which something can throw: a file operation, a missing source
\* file under add/ or modify/, a failing test
CanFailAt(m, step) ==
  \/ step = "file_ops" /\ m.file_ops # {}
  \/ step = "adds" /\ m.adds # {}
  \/ step = "modifies" /\ m.modifies # {}
  \/ step = "test" /\ m.test

\* the step runs to its end: nothing throws in it or before it
Runs(step, failAt) == failAt = "none" \/ StepIndex(step) < StepIndex(failAt)

\* the project trees a skill is applied to for the first time
ProjectTrees ==
  {t \in [files : [Paths -> {Absent, Original}], dirs : SUBSET Dirs] :
     \A p \in Paths : (t.files[p] # Absent /\ DirOf(p) # Root) => DirOf(p) \in t.dirs}

Exists(t, path) == t.files[path] # Absent

\* fs.mkdirSync(dirname, {recursive: true}); fs.writeFileSync / copyFileSync
WriteFile(t, path, content) ==
  [files |-> [t.files EXCEPT ![path] = content],
   dirs |-> t.dirs \cup ({DirOf(path)} \ {Root})]

\* fs.unlinkSync
Unlink(t, path) == [t EXCEPT !.files[path] = Absent]

\* cleanEmptyDirs(dirPath, stopAt): the directories of the model lie directly
\* under the root, so the loop ends after one round
cleanEmptyDirs(t, dir) ==
  IF dir # Root /\ \A p \in Paths : DirOf(p) = dir => ~Exists(t, p)
  THEN [t EXCEPT !.dirs = @ \ {dir}]
  ELSE t

\* state.appliedSkills.some((s) => s.name === skillName)
isSkillApplied(list, name) == \E i \in 1..Len(list) : list[i].name = name

\* state.appliedSkills.filter((s) => s.name !== skillName)
WithoutSkill(list, name) == SelectSeq(list, LAMBDA a : a.name # name)

\* one message for every name of the list
Messages(names, kind) == [i \in 1..Len(names) |-> [kind |-> kind, skill |-> names[i]]]

\* a validatePreApply that would not look at conflicts
validateIgnoringConflicts(m, list) ==
  Messages(SelectSeq(<<m.skill>>, LAMBDA n : isSkillApplied(list, n)), "already applied")
  \o Messages(SelectSeq(m.depends, LAMBDA n : ~isSkillApplied(list, n)), "missing dependency")

\* validatePreApply(manifest, projectRoot)
validatePreApply(m, list) ==
  Messages(SelectSeq(<<m.skill>>, LAMBDA n : isSkillApplied(list, n)), "already applied")
  \o Messages(SelectSeq(m.depends, LAMBDA n : ~isSkillApplied(list, n)), "missing dependency")
  \o Messages(SelectSeq(m.conflicts, LAMBDA n : isSkillApplied(list, n)), "conflict")

\* createBackup(files): the copies of the files that exist
createBackup(t, files) ==
  [p \in Paths |-> IF p \in files THEN t.files[p] ELSE Absent]

\* restoreBackup(): every file of the backup's manifest is copied back
restoreBackup(t, backup) ==
  [files |-> [p \in Paths |-> IF backup[p] # Absent THEN backup[p] ELSE t.files[p]],
   dirs |-> t.dirs \cup ({DirOf(p) : p \in {q \in Paths : backup[q] # Absent}} \ {Root})]

\* executeFileOp of type delete, for every operation
executeFileOps(t, ops) ==
  [t EXCEPT !.files = [p \in Paths |-> IF p \in ops THEN Absent ELSE t.files[p]]]

\* copySkillFile for every path of adds
CopyAdds(t, m) ==
  [files |-> [p \in Paths |-> IF p \in m.adds THEN SkillFile(m.skill) ELSE t.files[p]],
   dirs |-> t.dirs \cup ({DirOf(p) : p \in m.adds} \ {Root})]

\* snapshotFileToBase(relPath): nothing if the file does not exist
snapshotFileToBase(b, t, path) ==
  IF Exists(t, path) THEN [b EXCEPT ![path] = t.files[path]] ELSE b

\* step 3, line 89-91: a base snapshot is taken of a file that has none
EnsureBase(b, t, m) ==
  [p \in Paths |->
     IF p \in m.modifies /\ b[p] = Absent THEN snapshotFileToBase(b, t, p)[p] ELSE b[p]]

\* threeWayMerge(basePath, currentPath, skillPath): the content it returns
threeWayMerge(baseContent, current, skill) ==
  IF baseContent = Absent \/ current = Absent THEN skill
  ELSE IF current = baseContent THEN skill
  ELSE IF skill = baseContent \/ skill = current THEN current
  ELSE ConflictText

\* step 3: the merged content is written to every path of modifies
MergeModifies(t, b, m) ==
  [files |-> [p \in Paths |->
                IF p \in m.modifies
                THEN threeWayMerge(b[p], t.files[p], SkillFile(m.skill))
                ELSE t.files[p]],
   dirs |-> t.dirs \cup ({DirOf(p) : p \in m.modifies} \ {Root})]

\* an applySkill whose step 9 would leave the base snapshots as they are
KeepBase(b, t, m) == b

\* step 9, line 163-165: snapshotFileToBase for every modified file
UpdateBase(b, t, m) ==
  [p \in Paths |-> IF p \in m.modifies THEN snapshotFileToBase(b, t, p)[p] ELSE b[p]]

\* the project tree after steps 1 and 2, as far as they run
TreeAfterAdds(t, m, failAt) ==
  LET t1 == IF Runs("file_ops", failAt) THEN executeFileOps(t, m.file_ops) ELSE t
  IN  IF Runs("adds", failAt) THEN CopyAdds(t1, m) ELSE t1

\* the base snapshots after step 3, if it runs
BaseAfterSteps(t, b, m, failAt) ==
  IF Runs("modifies", failAt) THEN EnsureBase(b, TreeAfterAdds(t, m, failAt), m) ELSE b

\* the project tree after the steps of the try block that run
TreeAfterSteps(t, b, m, failAt) ==
  IF Runs("modifies", failAt)
  THEN MergeModifies(TreeAfterAdds(t, m, failAt), BaseAfterSteps(t, b, m, failAt), m)
  ELSE TreeAfterAdds(t, m, failAt)

\* applySkill(skillDir, projectRoot). failAt is the step in which something
\* throws, postApplyExit the exit code of the post_apply command.
ApplySkill(name, failAt, postApplyExit) ==
  LET m == Manifests[name]
      errors == validatePreApply(m, applied)
      backup == createBackup(tree, m.adds \cup m.modifies)
      after == TreeAfterSteps(tree, base, m, failAt)
      based == BaseAfterSteps(tree, base, m, failAt)
      conflicts == {p \in m.modifies : after.files[p] = ConflictText}
      call == [op |-> "apply", skill |-> name, ok |-> FALSE, error |-> <<>>,
               failAt |-> "none", postApplyExit |-> 0,
               pre |-> [tree |-> tree, applied |-> applied], afterApply |-> FALSE]
  IN  /\ failAt # "none" => CanFailAt(m, failAt)
      /\ postApplyExit # 0 => m.post_apply
      /\ initialized' = TRUE
      /\ IF errors # <<>>
         THEN /\ failAt = "none" /\ postApplyExit = 0
              /\ skillCall' = [call EXCEPT !.error = errors]
              /\ UNCHANGED <<tree, base, applied>>
         ELSE IF failAt # "none"
         THEN /\ postApplyExit = 0
              /\ tree' = restoreBackup(after, backup)
              /\ base' = based
              /\ skillCall' = [call EXCEPT !.failAt = failAt,
                                           !.error = <<[kind |-> "thrown", skill |-> name]>>]
              /\ UNCHANGED applied
         ELSE /\ tree' = after
              /\ base' = UpdateBase(based, after, m)
              /\ applied' = Append(WithoutSkill(applied, name),
                                   [name |-> name, files |-> m.adds \cup m.modifies])
              /\ skillCall' = [call EXCEPT !.ok = (conflicts = {}),
                                           !.postApplyExit = postApplyExit]
      /\ UNCHANGED butSkills

\* the loop of uninstallSkill over the files of the skill
RemoveFiles(t, b, files) ==
  LET restored == [t EXCEPT !.files = [p \in Paths |->
                      IF p \in files /\ b[p] # Absent THEN b[p] ELSE t.files[p]],
                            !.dirs = @ \cup ({DirOf(p) : p \in {q \in files : b[q] # Absent}}
                                             \ {Root})]
      unlinked == [restored EXCEPT !.files = [p \in Paths |->
                      IF p \in files /\ b[p] = Absent THEN Absent ELSE restored.files[p]]]
      pruned == {DirOf(p) : p \in {q \in files : b[q] = Absent /\ Exists(t, q)}}
  IN  [unlinked EXCEPT !.dirs =
         {d \in @ : ~(d \in pruned /\ cleanEmptyDirs(unlinked, d) # unlinked)}]

\* uninstallSkill(skillName, projectRoot)
UninstallSkill(name) ==
  LET found == SelectSeq(applied, LAMBDA a : a.name = name)
      call == [op |-> "uninstall", skill |-> name, ok |-> FALSE, error |-> <<>>,
               failAt |-> "none", postApplyExit |-> 0,
               pre |-> [tree |-> tree, applied |-> applied], afterApply |-> FALSE]
  IN  /\ IF found = <<>>
         THEN /\ skillCall' = [call EXCEPT !.error = <<[kind |-> "not applied", skill |-> name]>>]
              /\ UNCHANGED <<tree, applied>>
         ELSE /\ tree' = RemoveFiles(tree, base, found[1].files)
              /\ applied' = WithoutSkill(applied, name)
              /\ skillCall' =
                   IF skillCall.op = "apply" /\ skillCall.skill = name
                      /\ skillCall.error = <<>>
                   THEN [call EXCEPT !.ok = TRUE, !.pre = skillCall.pre,
                                     !.afterApply = TRUE]
                   ELSE [call EXCEPT !.ok = TRUE]
      /\ UNCHANGED <<base, initialized, butSkills>>

\* a project with no skill applied
InitSkills ==
  /\ InitBusButAux
  /\ AuxInitButProject
  /\ tree \in ProjectTrees

NextSkills ==
  \/ \E name \in SkillNames, failAt \in {"none", "file_ops", "adds", "modifies", "test"},
        postApplyExit \in {0, 1} : ApplySkill(name, failAt, postApplyExit)
  \/ \E name \in SkillNames : UninstallSkill(name)

SpecSkills == InitSkills /\ [][NextSkills]_vars

\* ---------------------------------------------------------------- learning

\* every variable of the sections above
coreVars ==
  <<queueVars, hostVars, busVars, conductorVars, restartVars, dbVars, repoVars, runnerVars,
    skillVars>>

\* the variables of the sections above that are neither the queue's, the
\* host's nor the bus's
coreAuxVars == <<conductorVars, restartVars, dbVars, repoVars, runnerVars, skillVars>>

\* the agent types of the drafts' metadata, numbered in the order of the
\* Map's keys
AgentTypes == 1..MaxAgents

\* the correction rates, in percent, the insights are exercised with
CorrectionRates == {5, 30, 60}

\* the numbers of tone_change corrections of an agent type
ToneCounts == {0, 2, 5}

\* the numbers of major_rewrite corrections of an agent type
RewriteCounts == {0, 2}

\* the percentages of rejections among an agent type's corrections
RejectionPercentages == {0, 20}

\* the insights of analyzeCorrections: one per agent type that has corrections
InsightLists ==
  UNION {[1..n -> [correctionRate : CorrectionRates, toneCount : ToneCounts,
                   rewriteCount : RewriteCounts, rejectionPercentage : RejectionPercentages]] :
           n \in 1..MaxAgents}

\* a PromptSuggestion: the agent type of its promptName, what it is about and
\* its confidence
Suggestion(agent, issue, confidence) ==
  [agentType |-> agent, issue |-> issue, confidence |-> confidence]

\* count >= 5 ? "high" : "medium"
ConfidenceOf(n) == IF n >= 5 THEN "high" ELSE "medium"

\* one round of the loop of generatePromptSuggestions: the suggestions list
\* after the insight of one agent type
SuggestFor(list, agent, insight) ==
  IF insight.correctionRate < 10 THEN list
  ELSE LET s1 == IF insight.toneCount >= 2
                 THEN Append(list, Suggestion(agent, "tone", ConfidenceOf(insight.toneCount)))
                 ELSE list
           s2 == IF insight.rewriteCount >= 2
                 THEN Append(s1, Suggestion(agent, "rewrite",
                                            ConfidenceOf(insight.rewriteCount)))
                 ELSE s1
           s3 == IF insight.rejectionPercentage >= 20
                 THEN Append(s2, Suggestion(agent, "rejection", "high"))
                 ELSE s2
       IN  IF insight.correctionRate >= 50 /\ Len(s3) = 0
           THEN Append(s3, Suggestion(agent, "general", "medium"))
           ELSE s3

RECURSIVE SuggestFrom(_, _, _)
\* the loop over the insights, from the i-th on
SuggestFrom(list, ins, i) ==
  IF i > Len(ins) THEN list
  ELSE SuggestFrom(SuggestFor(list, i, ins[i]), ins, i + 1)

\* generatePromptSuggestions()
generatePromptSuggestions(ins) == SuggestFrom(<<>>, ins, 1)

\* generatePromptSuggestions() over what analyzeCorrections returns
GeneratePromptSuggestions(ins) ==
  /\ insights' = ins
  /\ suggestions' = generatePromptSuggestions(ins)
  /\ UNCHANGED <<coreVars, workflowVars, migrVars, secretVars>>

InitLearning == InitBus

NextLearning == \E ins \in InsightLists : GeneratePromptSuggestions(ins)

SpecLearning == InitLearning /\ [][NextLearning]_vars

\* ---------------------------------------------------------------- workflow

\* isComplexTask: the types handleTaskCreated plans a workflow for
ComplexTypes == {"multi-step-response", "batch-processing", "research-and-report"}

\* the types of the tasks task:created is published for
WorkflowTaskTypes == ComplexTypes \cup {"email-agent"}

\* planWorkflow(task): the steps, each with its type, its order and the
\* positions in the plan of the steps it depends on
planWorkflow(type, items) ==
  IF type = "research-and-report"
  THEN <<[type |-> "research-agent", order |-> 1, dependsOn |-> {}],
         [type |-> "report-agent", order |-> 2, dependsOn |-> {1}]>>
  ELSE IF type = "batch-processing"
  THEN [i \in 1..items |-> [type |-> "batch-item-agent", order |-> 1, dependsOn |-> {}]]
  ELSE <<[type |-> type, order |-> 1, dependsOn |-> {}]>>

\* the id of the next inserted task
FreeId(st) == CHOOSE t \in WfIds : st[t].status = "absent" /\ \A u \in 1..(t - 1) : st[u].status # "absent"

\* the host, its store and the tasks' payloads as one value
WF == [q |-> Q, types |-> taskTypes, deps |-> dependsOn, parents |-> parentOf,
       planned |-> planned, items |-> 0]

RECURSIVE PublishCreated(_, _, _, _)
RECURSIVE createSubTasks(_, _, _, _, _, _)

\* createSubTasks(parentTask, plan), from the k-th step on: the sub-task is
\* inserted with the parent's priority and max-retries and task:created is
\* published for it, not routed
createSubTasks(w, parent, steps, k, ids, depth) ==
  IF k > Len(steps) THEN w
  ELSE LET id == FreeId(w.q.store)
           st1 == [w.q.store EXCEPT ![id] = Row(parent.priority, parent.createdAt,
                                                parent.maxRetries)]
           w1 == [w EXCEPT !.q.store = st1,
                           !.types[id] = steps[k].type,
                           !.deps[id] = {ids[j] : j \in steps[k].dependsOn},
                           !.parents[id] = parent.id]
           w2 == PublishCreated(w1, FindById(st1, id), FALSE, depth + 1)
       IN  createSubTasks(w2, parent, steps, k + 1, Append(ids, id), depth)

\* handleTaskCreated(event): a complex task is planned, conductor:workflow-planned
\* is published and its sub-tasks are created; any other task is published
\* again, routed
handleTaskCreated(w, task, depth) ==
  IF w.types[task.id] \in ComplexTypes
  THEN createSubTasks([w EXCEPT !.planned = Append(@, task.id)], task,
                      planWorkflow(w.types[task.id], w.items), 1, <<>>, depth)
  ELSE PublishCreated(w, task, TRUE, depth + 1)

\* publish("task:created"): the host's subscriber, then Workflow's
\* handleTaskCreated, as long as the call stack holds another publication
PublishCreated(w, task, routed, depth) ==
  LET w1 == [w EXCEPT !.q = HostOnTaskCreated(@, task, routed)]
  IN  IF depth < MaxNesting THEN handleTaskCreated(w1, task, depth) ELSE w1

\* the started host with an empty store that holds the ids of one workflow
InitWorkflow ==
  /\ concurrency = HostConcurrency
  /\ handler = TRUE
  /\ paused = FALSE
  /\ store = [t \in WfIds |-> AbsentRow]
  /\ waiting = <<>>
  /\ active = <<>>
  /\ running = 0
  /\ timers = [t \in WfIds |-> 0]
  /\ emitted = <<>>
  /\ settled = NoSettle
  /\ count = [t \in WfIds |-> [e \in EventNames |-> 0]]
  /\ completedSeq = <<>>
  /\ coWaited = {}
  /\ offered = <<>>
  /\ hostStarted = TRUE
  /\ inbound = 0
  /\ subs = <<>>
  /\ publication = NoPublication
  /\ AuxInit

\* A conductor inserts a task of the type, with max-retries m, and publishes
\* task:created for it
TaskCreated(type, p, m, items) ==
  /\ inbound < MaxInbound
  /\ inbound' = inbound + 1
  /\ LET id == FreeId(store)
         st1 == Insert(store, id, p, 1, m)
         w0 == [WF EXCEPT !.q.store = st1, !.types[id] = type, !.items = items]
         w == PublishCreated(w0, FindById(st1, id), FALSE, 0)
     IN  /\ Commit(w.q)
         /\ taskTypes' = w.types
         /\ dependsOn' = w.deps
         /\ parentOf' = w.parents
         /\ planned' = w.planned
  /\ settled' = NoSettle
  /\ UNCHANGED <<concurrency, handler, offered, hostStarted, busVars, coreAuxVars, learnVars,
                 migrVars, secretVars>>

NextWorkflow ==
  \/ \E type \in WorkflowTaskTypes, p \in HostPriorities, m \in 0..MaxRetriesBound,
        items \in 0..MaxItems : TaskCreated(type, p, m, items)
  \/ \E i \in 1..HostConcurrency, o \in HostOutcomes : HandlerResolves(i, o)
  \/ \E i \in 1..HostConcurrency : HandlerThrows(i)
  \/ \E t \in WfIds : RetryTimer(t)

SpecWorkflow == InitWorkflow /\ [][NextWorkflow]_vars

\* ---------------------------------------------------------------- migrations

\* everything but the database file and its connection
butMigrations == <<coreVars, learnVars, workflowVars, secretVars>>

\* MIGRATIONS: the versions, in the order of the array
MIGRATIONS == <<1, 2>>

\* the statements of one migration's SQL: the tables, then the indexes
Statements == {"tables", "indexes"}

\* the schema changes of a migration
SchemaOf(version) == {<<version, st>> : st \in Statements}

\* db.exec(sql) that goes through
ExecAll(file, version) == [file EXCEPT !.schema = @ \cup SchemaOf(version)]

\* db.exec(sql) up to the statement that fails
ExecPart(file, version) == [file EXCEPT !.schema = @ \cup {<<version, "tables">>}]

\* a catch block that would commit what the transaction did so far
CommitPartial(file, work) == work

\* db.exec("ROLLBACK"): the file keeps its committed content
Rollback(file, work) == file

\* getDb() with no open connection: the file is opened, schema_migrations is
\* created if it is missing, and migrate reads the applied versions
GetDb ==
  /\ conn = "closed"
  /\ openings < MaxOpenings
  /\ openings' = openings + 1
  /\ conn' = "migrating"
  /\ appliedSet' = dbFile.rows
  /\ migratePos' = 1
  /\ UNCHANGED <<dbFile, txn, migrationLog, butMigrations>>

\* migrate's loop at a version that is applied, or at its end
MigrateNext ==
  /\ conn = "migrating" /\ txn.stage = "none"
  /\ IF migratePos > Len(MIGRATIONS)
     THEN conn' = "open" /\ migratePos' = 0
     ELSE /\ MIGRATIONS[migratePos] \in appliedSet
          /\ migratePos' = migratePos + 1
          /\ UNCHANGED conn
  /\ UNCHANGED <<dbFile, appliedSet, txn, migrationLog, openings, butMigrations>>

\* runInTransaction: db.exec("BEGIN")
TxnBegin ==
  /\ conn = "migrating" /\ txn.stage = "none"
  /\ migratePos <= Len(MIGRATIONS)
  /\ MIGRATIONS[migratePos] \notin appliedSet
  /\ txn' = [stage |-> "begun", work |-> dbFile]
  /\ UNCHANGED <<dbFile, conn, migratePos, appliedSet, migrationLog, openings, butMigrations>>

\* db.exec(sql) inside the transaction. If a statement fails the catch block
\* rolls back and rethrows: getDb raises with _db assigned.
TxnExec(ok) ==
  /\ txn.stage = "begun"
  /\ IF ok
     THEN /\ txn' = [stage |-> "executed", work |-> ExecAll(txn.work, MIGRATIONS[migratePos])]
          /\ UNCHANGED <<dbFile, conn, migratePos>>
     ELSE /\ dbFile' = Rollback(dbFile, ExecPart(txn.work, MIGRATIONS[migratePos]))
          /\ txn' = NoTxn
          /\ conn' = "open"
          /\ migratePos' = 0
  /\ UNCHANGED <<appliedSet, migrationLog, openings, butMigrations>>

\* INSERT INTO schema_migrations (version) VALUES (?)
TxnInsert ==
  /\ txn.stage = "executed"
  /\ txn' = [stage |-> "inserted",
             work |-> [txn.work EXCEPT !.rows = @ \cup {MIGRATIONS[migratePos]}]]
  /\ UNCHANGED <<dbFile, conn, migratePos, appliedSet, migrationLog, openings, butMigrations>>

\* db.exec("COMMIT")
TxnCommit ==
  /\ txn.stage = "inserted"
  /\ dbFile' = txn.work
  /\ txn' = NoTxn
  /\ migrationLog' = Append(migrationLog, MIGRATIONS[migratePos])
  /\ migratePos' = migratePos + 1
  /\ UNCHANGED <<conn, appliedSet, openings, butMigrations>>

\* closeDb()
CloseDb ==
  /\ conn = "open"
  /\ conn' = "closed"
  /\ UNCHANGED <<dbFile, migratePos, appliedSet, txn, migrationLog, openings, butMigrations>>

\* The process ends while the store is open: what an open transaction did is
\* not in the file when it is opened again
ProcessExit ==
  /\ conn # "closed"
  /\ conn' = "closed"
  /\ txn' = NoTxn
  /\ migratePos' = 0
  /\ UNCHANGED <<dbFile, appliedSet, migrationLog, openings, butMigrations>>

InitMigrations == InitBus

NextMigrations ==
  \/ GetDb
  \/ MigrateNext
  \/ TxnBegin
  \/ \E ok \in BOOLEAN : TxnExec(ok)
  \/ TxnInsert
  \/ TxnCommit
  \/ CloseDb
  \/ ProcessExit

SpecMigrations == InitMigrations /\ [][NextMigrations]_vars

\* ---------------------------------------------------------------- secrets

\* everything but the host's environment and the worker launch
butSecrets == <<coreVars, learnVars, workflowVars, migrVars>>

\* readSecrets: the keys passed on to the worker
AllowList == {"ANTHROPIC_API_KEY"}

\* the keys of the .env file: the allow-listed one and another one
EnvKeys == AllowList \cup {"SMTP_PASSWORD"}

\* the values of a line of the .env file, trimmed
EnvValues == {"", "sk-ant-1", "sk-ant-2"}

\* the .env files: no file or no line, or a line for some of the keys
EnvFiles == UNION {[D -> EnvValues] : D \in SUBSET EnvKeys}

\* the environment the host is started in
AmbientEnvs == UNION {[D -> {"sk-ant-host"}] : D \in SUBSET AllowList}

\* randomUUID().slice(0, 8) with the prefix
ContainerIds == {"coreclaw-agent-1a2b3c4d", "coreclaw-agent-5e6f7a8b"}

\* ContainerRunOptions, the fields that add arguments
RunOptions == [networkEnabled : BOOLEAN, memoryLimit : {"", "512m"}]

\* import "dotenv/config": every key of the file that the environment does
\* not hold is set in process.env
dotenvConfig(env, file) ==
  [k \in DOMAIN env \cup DOMAIN file |-> IF k \in DOMAIN env THEN env[k] ELSE file[k]]

\* readSecrets: the allow-listed keys of the file with a value
readSecrets(file) ==
  [k \in {x \in DOMAIN file \cap AllowList : file[x] # ""} |-> file[k]]

\* setupIpcDir and the mount argument made of it
IpcMount(containerId) ==
  IF containerId = "coreclaw-agent-1a2b3c4d"
  THEN "data/ipc/coreclaw-agent-1a2b3c4d:/workspace/ipc"
  ELSE "data/ipc/coreclaw-agent-5e6f7a8b:/workspace/ipc"

buildDockerArgs(containerId, image, options) ==
  <<"run", "-i", "--rm", "--name", containerId, "--read-only",
    "--tmpfs", "/tmp:size=64m", "--security-opt", "no-new-privileges:true">>
  \o (IF ~options.networkEnabled THEN <<"--network", "none">> ELSE <<>>)
  \o (IF options.memoryLimit # "" THEN <<"--memory", options.memoryLimit>> ELSE <<>>)
  \o <<"-v", IpcMount(containerId), image>>

\* what runInContainer hands to spawn and writes to the child's stdin: spawn
\* is given stdio only, so the child's environment is process.env
Launched(n, containerId, options, env, file) ==
  [n |-> n, containerId |-> containerId, options |-> options,
   args |-> buildDockerArgs(containerId, "coreclaw-agent:latest", options),
   env |-> env,
   stdin |-> [taskId |-> n, secrets |-> readSecrets(file)],
   log |-> <<>>]

\* the .env file is written before the host is started
WriteEnvFile(file) ==
  /\ ~processEnv.started
  /\ envFile # file
  /\ envFile' = file
  /\ UNCHANGED <<processEnv, launch, butSecrets>>

\* the host starts: index.ts loads the .env file into process.env
HostLoadsEnv(ambient) ==
  /\ ~processEnv.started
  /\ processEnv' = [started |-> TRUE, ambient |-> ambient,
                    vars |-> dotenvConfig(ambient, envFile)]
  /\ UNCHANGED <<envFile, launch, butSecrets>>

\* runInContainer up to the write of the stdin frame
LaunchWorker(containerId, options) ==
  /\ processEnv.started
  /\ launch.n < MaxLaunches
  /\ launch' = Launched(launch.n + 1, containerId, options, processEnv.vars, envFile)
  /\ UNCHANGED <<envFile, processEnv, butSecrets>>

\* the timeout of the launched worker: the only line runInContainer logs
LaunchTimesOut ==
  /\ launch.n > 0
  /\ launch.log = <<>>
  /\ launch' = [launch EXCEPT !.log = <<<<"[container] timed out", launch.containerId>>>>]
  /\ UNCHANGED <<envFile, processEnv, butSecrets>>

InitSecrets == InitBus

NextSecrets ==
  \/ \E file \in EnvFiles : WriteEnvFile(file)
  \/ \E ambient \in AmbientEnvs : HostLoadsEnv(ambient)
  \/ \E containerId \in ContainerIds, options \in RunOptions : LaunchWorker(containerId, options)
  \/ LaunchTimesOut

SpecSecrets == InitSecrets /\ [][NextSecrets]_vars

\* ---------------------------------------------------------------- claims

Held(t) ==
  \/ \E i \in 1..Len(waiting) : waiting[i].id = t
  \/ \E i \in 1..Len(active) : active[i].id = t
  \/ timers[t] > 0

EmittedFor(name, t) == \E i \in 1..Len(emitted) : emitted[i].ev = name /\ emitted[i].id = t

\* C1: the number of tasks dispatched and not yet settled is what activeCount
\* reports, is never negative and never exceeds the concurrency the queue was
\* constructed with.
C1_ActiveCountWithinConcurrency ==
  /\ running = Len(active)
  /\ running >= 0
  /\ running <= concurrency

\* every slot is taken and a task has to wait
C1_Witness == handler /\ ~paused /\ running = concurrency /\ Len(waiting) > 0

\* the `started` events of the last operation, in order
StartedNow == SelectSeq(emitted, LAMBDA e : e.ev = "started")

\* task b sorts strictly before task a: lower priority rank, or the same rank
\* and an earlier created-at
SortsBefore(b, a) ==
  \/ PRIORITY_WEIGHT[store[b].priority] < PRIORITY_WEIGHT[store[a].priority]
  \/ /\ store[b].priority = store[a].priority
     /\ store[b].createdAt < store[a].createdAt

\* C2: whenever an operation dispatches tasks, no task left in the waiting
\* buffer sorts strictly before a dispatched one (lower priority rank, or the
\* same rank and an earlier created-at), and the tasks it dispatches are
\* dispatched in that order.
C2_PriorityDispatch ==
  /\ \A i \in 1..Len(StartedNow), k \in 1..Len(waiting) :
       ~SortsBefore(waiting[k].id, StartedNow[i].id)
  /\ \A i, j \in 1..Len(StartedNow) :
       i < j => ~SortsBefore(StartedNow[j].id, StartedNow[i].id)

\* a task enqueued later is dispatched while a task enqueued earlier, which
\* sorts after it, is still waiting
C2_Witness ==
  \E a, b \in TaskIds :
    /\ EmittedFor("started", a)
    /\ \E k \in 1..Len(waiting) : waiting[k].id = b
    /\ SortsBefore(a, b)
    /\ \E i, j \in 1..Len(offered) : i < j /\ offered[i] = b /\ offered[j] = a

\* C3: a task is executed at most maxRetries+1 times; every `retry` event
\* comes with one increment of the stored retry-count and leaves the task
\* pending until its timer fires; a failure of the handler at retryCount <
\* maxRetries emits `retry`, one at retryCount = maxRetries emits `failed`;
\* `failed` is emitted at most once, after exactly maxRetries+1 executions and
\* maxRetries retries, with status failed, and the task is not held by the
\* queue again.
C3_RetryUntilExhausted ==
  /\ \A t \in TaskIds :
       LET r == store[t]
           c == count[t]
       IN  /\ c["started"] <= r.maxRetries + 1
           /\ c["retry"] = r.retryCount
           /\ c["failed"] <= 1
           /\ timers[t] > 0 => r.status = "pending"
           /\ c["failed"] = 1 =>
                /\ c["started"] = r.maxRetries + 1
                /\ c["retry"] = r.maxRetries
                /\ c["enqueued"] = r.maxRetries + 1
                /\ c["completed"] = 0
                /\ r.status = "failed"
                /\ ~Held(t)
           /\ (c["started"] > 0 /\ c["completed"] = 0 /\ ~Held(t)) =>
                (c["failed"] = 1 /\ c["started"] = r.maxRetries + 1)
  /\ settled.outcome = "threw" =>
       IF settled.retryCount < settled.maxRetries
       THEN /\ EmittedFor("retry", settled.id)
            /\ ~EmittedFor("failed", settled.id)
            /\ store[settled.id].retryCount = settled.retryCount + 1
            /\ timers[settled.id] > 0
       ELSE /\ EmittedFor("failed", settled.id)
            /\ ~EmittedFor("retry", settled.id)
            /\ store[settled.id].status = "failed"

\* a task with at least one retry has run out of retries
C3_Witness ==
  \E t \in TaskIds :
    /\ store[t].maxRetries >= 1
    /\ count[t]["failed"] = 1
    /\ count[t]["started"] = store[t].maxRetries + 1
    /\ settled.id = t /\ settled.outcome = "threw"

\* C4: when the worker run ends in a synthesised failed Agent-Output (spawn
\* failure, or exit without a valid frame) and the task has retries left, the
\* queue increments the retry-count, emits `retry` and schedules the
\* re-enqueue.
C4_WorkerFailureRetried ==
  (settled.outcome \in {"no-frame", "spawn-error"} /\ settled.retryCount < settled.maxRetries) =>
    /\ EmittedFor("retry", settled.id)
    /\ store[settled.id].retryCount = settled.retryCount + 1
    /\ timers[settled.id] > 0

\* C6: an operation that leaves the queue paused has dispatched nothing
\* (enqueue, a settling handler and a retry timer included); a step into or
\* within the pause removes a running task only by settling it, and pause()
\* itself leaves the running tasks and the buffer alone; a running task can
\* settle while paused; once resume() returns, with the handler installed,
\* the buffer is empty or every slot is taken.
C6_PauseHaltsDispatch ==
  /\ [](paused => Len(StartedNow) = 0)
  /\ [][paused' => /\ Len(active') <= Len(active)
                   /\ settled' = NoSettle => active' = active
                   /\ ~paused => waiting' = waiting /\ store' = store]_vars
  /\ [](paused /\ Len(active) > 0 => ENABLED HandlerResolves(1, "completed"))
  /\ []((handler /\ emitted # <<>> /\ emitted[1].ev = "resumed") =>
          (Len(waiting) = 0 \/ running = concurrency))

\* a running task settles while the queue is paused, a free slot and a
\* waiting task notwithstanding
C6_Witness ==
  /\ paused /\ handler
  /\ settled # NoSettle
  /\ Len(waiting) > 0
  /\ running < concurrency

\* the scenario S1: concurrency 1, T1 (low, created at t) is enqueued, then T2
\* (urgent, created at t+1); every run of the handler succeeds and both
\* tasks have completed
S1Completed ==
  /\ concurrency = 1
  /\ store[1].priority = "low" /\ store[2].priority = "urgent"
  /\ store[2].createdAt = store[1].createdAt + 1
  /\ offered = <<1, 2>>
  /\ \A t \in {1, 2} : count[t]["retry"] = 0 /\ count[t]["failed"] = 0
  /\ Len(completedSeq) = 2

\* C7 as stated: in S1 the `completed` event of T2 is emitted before the one
\* of T1.
C7_UrgentCompletesFirst == S1Completed => completedSeq = <<2, 1>>

\* C7: in S1 the `completed` event of T2 precedes the one of T1 exactly when
\* T1 was still in the waiting buffer when T2 was enqueued (no handler yet,
\* or the queue paused); otherwise enqueue(T1) has dispatched T1 at once and
\* T1 completes first.
C7_UrgentOvertakesWaitingOnly ==
  S1Completed =>
    /\ completedSeq \in {<<1, 2>>, <<2, 1>>}
    /\ completedSeq = <<2, 1>> <=> <<1, 2>> \in coWaited

\* T1 and T2 met in the buffer and T2 completed first
C7_Witness == S1Completed /\ completedSeq = <<2, 1>> /\ <<1, 2>> \in coWaited

\* C8: when the handler of a task resolves after k failed attempts, the queue
\* has emitted k `retry` events, one `completed` event and no `failed` event
\* for it, and the task's status in the store is completed.
C8_RetriesThenCompleted ==
  settled.outcome \in WorkerOutcomes =>
    /\ count[settled.id]["retry"] = settled.retryCount
    /\ settled.retryCount <= settled.maxRetries
    /\ count[settled.id]["completed"] = 1
    /\ count[settled.id]["failed"] = 0
    /\ EmittedFor("completed", settled.id)
    /\ store[settled.id].status = "completed"

\* C9: every `enqueued`, `started`, `retry` and `failed` event is emitted
\* when the store already holds queued, running, pending and failed,
\* respectively, for its task.
C9_StoreWrittenBeforeEvent ==
  \A i \in 1..Len(emitted) :
    LET e == emitted[i]
    IN  /\ e.ev = "enqueued" => e.status = "queued"
        /\ e.ev = "started" => e.status = "running"
        /\ e.ev = "retry" => e.status = "pending"
        /\ e.ev = "failed" => e.status = "failed"

\* one operation has emitted `retry` for the failed task and `started` for
\* the next one
C9_Witness ==
  /\ settled.outcome = "threw"
  /\ EmittedFor("retry", settled.id)
  /\ \E t \in TaskIds : EmittedFor("started", t) /\ t # settled.id

\* the number of entries of the waiting buffer that hold task t
WaitingCopies(t) == Cardinality({i \in 1..Len(waiting) : waiting[i].id = t})

\* C5: in the started host a task id occurs at most once in the waiting
\* buffer and is never waiting and running at the same time.
C5_TaskHeldOnce ==
  \A t \in TaskIds :
    /\ WaitingCopies(t) <= 1
    /\ ~(WaitingCopies(t) > 0 /\ \E i \in 1..Len(active) : active[i].id = t)

\* a subscription receives the last publication
Receives(i) == \E k \in 1..Len(publication.received) : publication.received[k] = i

\* C10: a publication reaches every subscriber of its type and every
\* wildcard subscriber and returns to the publisher, subscribers that throw
\* notwithstanding.
C10_ThrowingSubscriberIsolated ==
  publication.type # "none" =>
    /\ \A i \in 1..Len(subs) :
         subs[i].type \in {publication.type, Wildcard} => Receives(i)
    /\ publication.result = "returned"

\* C11: every subscription observes the publications of one publisher in the
\* order in which that publisher made them, publications made from inside a
\* handler included.
C11_PublicationOrder ==
  LET obs == publication.observed
  IN  \A k1, k2 \in 1..Len(obs) :
        (k1 < k2 /\ obs[k1].sub = obs[k2].sub /\ obs[k1].by = obs[k2].by) =>
          obs[k1].pub < obs[k2].pub

\* the number of times the host has handed task t to enqueue
TimesOffered(t) == Cardinality({i \in 1..Len(offered) : offered[i] = t})

\* C12: the host enqueues a task announced by task:created once: the routed
\* publication is made once and the cascade of publications ends there.
C12_RoutedOnce == \A t \in TaskIds : TimesOffered(t) <= 1

\* the interval timers of a conductor that are set
IntervalsOf(role) == {t \in intervals : t.owner = role}

\* C13: whatever the number of start() calls, a running conductor has each of
\* its subscriptions once and, if it owns a timer, that timer once; a stopped
\* conductor has no subscription and no timer.
C13_StartIdempotentStopClears ==
  \A role \in ConductorRoles :
    LET c == conductors[role]
    IN  /\ c.running =>
             /\ c.subscribed = SubscriptionsOf(role)
             /\ Cardinality(IntervalsOf(role)) = IF role = "workflow" THEN 0 ELSE 1
        /\ ~c.running =>
             /\ c.subscribed = 0
             /\ IntervalsOf(role) = {}

\* C14: once start() has run after a restart, every task a previous run left
\* pending or queued has been handed to enqueue.
C14_RestartReEnqueuesAll == restarted => reEnqueued = backlog

C16_AtMostOneActive ==
  \A name \in PromptNames : Cardinality(ActiveVersions(prompts, name)) <= 1

\* C17: for every draft, after any sequence of updateBody, updateStatus,
\* updateQuality and approval-engine operations, original-body equals the body
\* the draft was inserted with.
C17_OriginalBodyKept ==
  \A d \in DraftIds :
    drafts[d] # AbsentDraft => drafts[d].originalBody = drafts[d].insertedBody

\* a draft that was edited and approved, and whose body was then rewritten
\* once more on the repository, so that its body differs from its original body
C17_Witness ==
  \E d \in DraftIds :
    /\ drafts[d].status = "edited_and_sent"
    /\ drafts[d].qualityScore # NoScore
    /\ drafts[d].body # drafts[d].insertedBody
    /\ \E i \in 1..Len(corrections) :
         corrections[i].draftId = d /\ corrections[i].editedBody # drafts[d].body

\* the status changes the approval engine is said to make
EngineTransitions ==
  {<<"pending_review", "approved">>, <<"pending_review", "rejected">>,
   <<"pending_review", "edited_and_sent">>, <<"pending_review", "auto_approved">>,
   <<"approved", "sent">>, <<"auto_approved", "sent">>}

\* C18: through the approval engine a draft's status changes only along
\* pending_review -> approved, rejected, edited_and_sent or auto_approved, and
\* approved -> sent, auto_approved -> sent; so rejected, sent and
\* edited_and_sent are terminal and markDraftSent never moves edited_and_sent
\* to sent.
C18_EngineTransitions ==
  [][engineCall'.op # "none" =>
       \A d \in DraftIds :
         (drafts[d] # AbsentDraft /\ drafts'[d].status # drafts[d].status)
           => <<drafts[d].status, drafts'[d].status>> \in EngineTransitions]_vars

\* markDraftSent has just been called on an edited_and_sent draft, which it
\* left as it was, while another draft has gone on to sent
C18_Witness ==
  \E d, e \in DraftIds :
    /\ engineCall.op = "markDraftSent" /\ engineCall.id = d
    /\ drafts[d].status = "edited_and_sent"
    /\ \E i \in 1..Len(corrections) : corrections[i].draftId = d
    /\ drafts[e].status = "sent"

ReviewOps == {"approveDraft", "rejectDraft", "editAndApproveDraft", "autoApproveDraft"}

\* C19: approveDraft, rejectDraft, editAndApproveDraft and autoApproveDraft
\* called on a draft whose status is not pending_review, or on an unknown id,
\* return null, leave the draft unchanged, insert no Correction and publish
\* no event.
C19_RefusedReviewChangesNothing ==
  [][(/\ engineCall'.op \in ReviewOps
      /\ drafts[engineCall'.id].status # "pending_review")
       => /\ engineCall'.returned = "null"
          /\ drafts' = drafts
          /\ corrections' = corrections
          /\ engineCall'.published = <<>>]_vars

\* a review operation has returned null for a draft that was reviewed before
C19_Witness ==
  /\ engineCall.op \in ReviewOps
  /\ engineCall.returned = "null"
  /\ drafts[engineCall.id].status \in {"approved", "rejected", "edited_and_sent"}

\* a review operation has returned null for an id that has no row
C19_WitnessUnknown ==
  /\ engineCall.op \in ReviewOps
  /\ engineCall.returned = "null"
  /\ drafts[engineCall.id] = AbsentDraft

\* C20: rejectDraft called with an empty reason does not move the draft to
\* rejected, records no Correction and publishes no draft:rejected.
C20_EmptyReasonRejectsNothing ==
  [][(engineCall'.op = "rejectDraft" /\ engineCall'.reason = "")
       => /\ drafts[engineCall'.id].status # "rejected"
               => drafts'[engineCall'.id].status # "rejected"
          /\ corrections' = corrections
          /\ "draft:rejected" \notin Range(engineCall'.published)]_vars

\* C21: every Correction whose change-type is rejection has an empty
\* edited-body, whether rejectDraft recorded it or editAndApproveDraft did,
\* with any edited body.
C21_RejectionHasEmptyBody ==
  \A i \in 1..Len(corrections) :
    corrections[i].changeType = "rejection" => corrections[i].editedBody = NoBody

\* C22: autoApproveDraft(draftId, rule) on a pending_review draft moves it to
\* auto_approved, records the rule's name in the draft's auto-approve-match
\* field and publishes draft:auto_approved.
C22_AutoApproveRecordsRule ==
  (engineCall.op = "autoApproveDraft" /\ engineCall.returned = "draft") =>
    /\ drafts[engineCall.id].status = "auto_approved"
    /\ drafts[engineCall.id].autoApproveMatch = engineCall.rule
    /\ engineCall.published = <<"draft:auto_approved">>

\* a text with no character in it
EmptyText(text) == \A i \in 1..Len(text) : text[i] = ""

\* C23: every Agent-Output returned by runInContainer has a non-empty
\* summary, whether it is a valid frame of the worker, or synthesised after
\* the child exits without a valid frame or after a spawn error.
C23_SummaryNotEmpty ==
  result # NoResult => ~EmptyText(result.output.summary)

\* the Agent-Output a document decodes to
OutputOf(doc) == [status |-> doc.status, summary |-> doc.summary]

\* the captured stdout is debug lines around two frames: f between its
\* markers at a, then x after a start marker at b, with its end marker or,
\* if not closed, with no end marker after it
TwoFramesAt(a, b, f, x, closed) ==
  /\ a + 2 < b /\ b + 1 <= Len(stdout)
  /\ stdout[a] = OUTPUT_START_MARKER /\ stdout[a + 1] = f
  /\ stdout[a + 2] = OUTPUT_END_MARKER
  /\ stdout[b] = OUTPUT_START_MARKER /\ stdout[b + 1] = x
  /\ closed => (b + 2 <= Len(stdout) /\ stdout[b + 2] = OUTPUT_END_MARKER)
  /\ \A i \in 1..Len(stdout) :
       i \notin ({a, a + 1, a + 2, b, b + 1} \cup (IF closed THEN {b + 2} ELSE {}))
         => stdout[i] = DebugLine

\* C24: the worker result is the last valid frame of the stdout stream: with
\* two valid frames F1 then F2 it is F2; with F2 replaced by invalid JSON, by
\* a document failing the schema, or lacking its end marker, it is F1.
C24_LastValidFrame ==
  /\ \A a, b \in 1..MaxStdout : \A f \in {F1, F2} : \A x \in Documents :
       /\ (TwoFramesAt(a, b, f, x, TRUE) /\ x \in {F1, F2})
            => lastOutput = OutputOf(x)
       /\ (TwoFramesAt(a, b, f, x, TRUE) /\ x \in {BadJson, BadShape})
            => lastOutput = OutputOf(f)
       /\ TwoFramesAt(a, b, f, x, FALSE) => lastOutput = OutputOf(f)
  /\ result.from \in {"frame", "close"} =>
       /\ lastOutput = LastOf(extractOutputs(stdout), NoOutput)
       /\ result.from = "frame" <=> lastOutput # NoOutput
       /\ result.from = "frame" => result.output = lastOutput

\* the run has resolved with F2 after the frames F1 and F2
C24_Witness ==
  /\ stdout = <<OUTPUT_START_MARKER, F1, OUTPUT_END_MARKER,
                OUTPUT_START_MARKER, F2, OUTPUT_END_MARKER>>
  /\ result.from = "frame"
  /\ result.output = OutputOf(F2)

\* the run has resolved with F1 after the frame F1 and a frame failing the schema
C24_WitnessInvalid ==
  /\ stdout = <<OUTPUT_START_MARKER, F1, OUTPUT_END_MARKER,
                OUTPUT_START_MARKER, BadShape, OUTPUT_END_MARKER>>
  /\ result.from = "frame"
  /\ result.output = OutputOf(F1)

\* the run has resolved with F1 after the frame F1 and a frame with no end marker
C24_WitnessUnclosed ==
  /\ stdout = <<DebugLine, OUTPUT_START_MARKER, F1, OUTPUT_END_MARKER,
                OUTPUT_START_MARKER, F2>>
  /\ result.from = "frame"
  /\ result.output = OutputOf(F1)

\* the words by which a summary would report the timeout, as the runner's own
\* log line does
TimeoutWords == {"timed out", "timeout", "Timeout"}

\* C25: if the worker produces no valid frame within timeoutMs it is sent a
\* graceful stop signal, then a forced kill 10 seconds later if it is still
\* alive, and runInContainer resolves with a failed Agent-Output whose summary
\* reports the timeout.
C25_TimeoutReported ==
  /\ \A i \in 1..Len(signals) :
       signals[i] = "SIGKILL" => \E j \in 1..(i - 1) : signals[j] = "SIGTERM"
  /\ (child = "closed" /\ signals # <<>>) =>
       /\ result.output.status = "failed"
       /\ \E i \in 1..Len(result.output.summary) :
            result.output.summary[i] \in TimeoutWords

\* the last call was an applySkill in which a step threw after the backup
ApplyThrew(call) == call.op = "apply" /\ call.failAt # "none"

\* C26: if applySkill fails after the backup was taken, the project tree is
\* afterwards identical to the tree before the call (added files absent,
\* modified files with their old content, deleted files back in place) and
\* the skill is not in the applied list.
C26_FailedApplyRestoresTree ==
  [][ApplyThrew(skillCall') =>
       /\ tree' = tree
       /\ applied' = applied
       /\ ~isSkillApplied(applied', skillCall'.skill)]_vars

\* a failed applySkill left a file of adds behind that was not there before
C26_AddedFileLeft ==
  /\ ApplyThrew(skillCall)
  /\ \E p \in Manifests[skillCall.skill].adds :
       skillCall.pre.tree.files[p] = Absent /\ tree.files[p] # Absent

\* C27: applying a skill whose post_apply command exits non-zero fails and
\* rolls back: the files of adds that the call created are absent again,
\* every file of modifies has its content from before the call, and the
\* applied list does not contain the skill.
C27_PostApplyFailureRollsBack ==
  [][(skillCall'.op = "apply" /\ skillCall'.postApplyExit # 0) =>
       /\ ~skillCall'.ok
       /\ \A p \in Manifests[skillCall'.skill].adds :
            tree.files[p] = Absent => tree'.files[p] = Absent
       /\ \A p \in Manifests[skillCall'.skill].modifies :
            tree'.files[p] = tree.files[p]
       /\ ~isSkillApplied(applied', skillCall'.skill)]_vars

\* the violations of a skill's pre-flight check against an applied list
ExpectedViolations(name, list) ==
  {[kind |-> "already applied", skill |-> n] :
     n \in {x \in {name} : isSkillApplied(list, x)}}
  \cup {[kind |-> "missing dependency", skill |-> Manifests[name].depends[i]] :
          i \in {j \in 1..Len(Manifests[name].depends) :
                   ~isSkillApplied(list, Manifests[name].depends[j])}}
  \cup {[kind |-> "conflict", skill |-> Manifests[name].conflicts[i]] :
          i \in {j \in 1..Len(Manifests[name].conflicts) :
                   isSkillApplied(list, Manifests[name].conflicts[j])}}

\* C28: whenever the skill is already applied, some entry of its depends is
\* not applied or some entry of its conflicts is applied, applySkill fails
\* with the list of all the violations and changes neither the project tree
\* nor the recorded skill state (applied list, base snapshots).
C28_PreflightFailureChangesNothing ==
  [][(skillCall'.op = "apply" /\ ExpectedViolations(skillCall'.skill, applied) # {}) =>
       /\ ~skillCall'.ok
       /\ {skillCall'.error[i] : i \in 1..Len(skillCall'.error)}
            = ExpectedViolations(skillCall'.skill, applied)
       /\ Len(skillCall'.error) = Cardinality(ExpectedViolations(skillCall'.skill, applied))
       /\ tree' = tree
       /\ applied' = applied
       /\ base' = base]_vars

\* a pre-flight failure with two violations, on a project with a skill applied
C28_Witness ==
  /\ skillCall.op = "apply"
  /\ ~skillCall.ok
  /\ Len(skillCall.error) = 2
  /\ applied # <<>>

\* a pre-flight failure because of an applied conflicting skill
C28_WitnessConflict ==
  /\ skillCall.op = "apply"
  /\ ~skillCall.ok
  /\ \E i \in 1..Len(skillCall.error) : skillCall.error[i].kind = "conflict"

\* the skill's only effect is adds
OnlyAdds(name) ==
  /\ Manifests[name].adds # {}
  /\ Manifests[name].modifies = {}
  /\ Manifests[name].file_ops = {}

\* C29: applying and then uninstalling a skill whose only effect is adds
\* leaves the project tree identical to the tree before the apply (added
\* files deleted, directories that became empty pruned, the root kept) and
\* the applied list as before.
C29_ApplyUninstallAddsIsIdentity ==
  (skillCall.op = "uninstall" /\ skillCall.afterApply /\ OnlyAdds(skillCall.skill)) =>
    /\ tree = skillCall.pre.tree
    /\ applied = skillCall.pre.applied

\* the first successful apply that modifies a file leaves the file's content
\* from before the call in the base snapshot
C30_BaseHoldsPreSkillContent ==
  [][(skillCall'.op = "apply" /\ skillCall'.error = <<>>) =>
       \A p \in Manifests[skillCall'.skill].modifies :
         (base[p] = Absent /\ tree.files[p] # Absent) => base'[p] = tree.files[p]]_vars

\* C30: the base snapshot of a file modified by a skill holds the file's
\* content from before any skill modified it, so that applying a modifying
\* skill and then uninstalling it gives every modified file the content it
\* had before the apply.
C30_ModifyUninstallRestores ==
  (skillCall.op = "uninstall" /\ skillCall.afterApply) =>
    \A p \in Manifests[skillCall.skill].modifies :
      tree.files[p] = skillCall.pre.tree.files[p]

\* C39: draft:sent is published only when markDraftSent moved the draft from
\* approved or auto_approved to sent; called on a draft in any other status,
\* or on an unknown id, markDraftSent changes nothing and publishes nothing.
C39_SentPublishedOnlyWhenMoved ==
  [][engineCall'.op = "markDraftSent" =>
       IF drafts[engineCall'.id] # AbsentDraft
          /\ drafts[engineCall'.id].status \in {"approved", "auto_approved"}
       THEN /\ drafts'[engineCall'.id].status = "sent"
            /\ engineCall'.published = <<"draft:sent">>
       ELSE /\ drafts' = drafts
            /\ engineCall'.published = <<>>]_vars

\* the names of the applied skills
AppliedNames == {applied[i].name : i \in 1..Len(applied)}

\* C40: after any sequence of successful applySkill and uninstallSkill calls
\* every applied skill has all of its depends applied and no applied skill is
\* listed in the conflicts of another applied skill; uninstalling a skill
\* another applied skill depends on is refused.
C40_DependsAndConflictsHold ==
  \A n \in AppliedNames :
    /\ \A i \in 1..Len(Manifests[n].depends) : Manifests[n].depends[i] \in AppliedNames
    /\ \A i \in 1..Len(Manifests[n].conflicts) : Manifests[n].conflicts[i] \notin AppliedNames

\* a skill is applied while the skill it depends on has been uninstalled
C40_DependencyUninstalled ==
  /\ skillCall.op = "uninstall" /\ skillCall.ok
  /\ \E n \in AppliedNames :
       \E i \in 1..Len(Manifests[n].depends) : Manifests[n].depends[i] = skillCall.skill

\* the step is a stdout chunk that adds no valid frame to the ones parsed
ChunkWithoutNewFrame ==
  /\ Len(stdout') = Len(stdout) + 1
  /\ SubSeq(stdout', 1, Len(stdout)) = stdout
  /\ Len(extractOutputs(stdout')) = Len(extractOutputs(stdout))

\* C34: the inactivity timeout is restarted only by the arrival of a new
\* valid frame: a stdout chunk that adds no new valid frame (debug output, an
\* invalid or incomplete frame) leaves the timer as it is.
C34_TimeoutResetOnlyByNewFrame ==
  [][ChunkWithoutNewFrame => timeoutId' = timeoutId]_vars

\* C38: every dispatched task decrements running exactly once when it
\* settles, so running is never negative, and a task whose handler promise
\* resolved is not retried or marked failed by the queue in the same
\* settlement, even when a `completed` listener or the follow-up drain raises.
C38_ResolvedTaskSettlesOnce ==
  [][/\ running' >= 0
     /\ (settled'.id # NoTask /\ settled'.outcome # "threw") =>
          /\ count'[settled'.id].retry = count[settled'.id].retry
          /\ count'[settled'.id].failed = count[settled'.id].failed
          /\ timers'[settled'.id] = timers[settled'.id]]_vars

\* running has gone below zero
C38_RunningNegative == running < 0

\* the suggestions made for the agent type of the i-th insight
SuggestionsFor(i) ==
  {j \in 1..Len(suggestions) : suggestions[j].agentType = i}

\* C37: an agent type whose correction rate is at least 50 and for which no
\* tone, rewrite or rejection suggestion was produced receives a general
\* clarity suggestion with confidence medium, whatever was suggested for
\* other agent types.
C37_GeneralSuggestionPerAgent ==
  \A i \in 1..Len(insights) :
    (/\ insights[i].correctionRate >= 50
     /\ \A j \in SuggestionsFor(i) :
          suggestions[j].issue \notin {"tone", "rewrite", "rejection"})
    => \E j \in SuggestionsFor(i) :
         suggestions[j].issue = "general" /\ suggestions[j].confidence = "medium"

\* C35: for a research-and-report task the report sub-task, whose dependsOn
\* names the research sub-task, is not dispatched to a worker before the
\* research sub-task has completed.
C35_ReportWaitsForResearch ==
  \A r \in WfIds :
    (taskTypes[r] = "report-agent" /\ count[r].started > 0) =>
      \A d \in dependsOn[r] : count[d].completed > 0

\* the number of times conductor:workflow-planned was published for a task
TimesPlanned(t) == Cardinality({i \in 1..Len(planned) : planned[i] = t})

\* C36: handling task:created for a task of a complex type publishes
\* conductor:workflow-planned exactly once for that task, and no sub-task it
\* creates is itself planned again as a complex task.
C36_SubTasksNotPlannedAgain ==
  \A t \in WfIds :
    /\ (taskTypes[t] \in ComplexTypes /\ parentOf[t] = NoTask) => TimesPlanned(t) = 1
    /\ parentOf[t] # NoTask => TimesPlanned(t) = 0

\* C33: status writes for a task are serialised by ownership: while the
\* queue owns a task no conductor writes its status, so a store status of
\* running implies that the task is being executed by the queue and counted
\* in activeCount.
C33_RunningMeansExecuting ==
  \A t \in DOMAIN store :
    store[t].status = "running" =>
      /\ \E i \in 1..Len(active) : active[i].id = t
      /\ running > 0

\* the versions whose every schema change is in the file
SchemaComplete == {v \in Range(MIGRATIONS) : SchemaOf(v) \subseteq dbFile.schema}

\* the versions with at least one schema change in the file
SchemaTouched == {v \in Range(MIGRATIONS) : SchemaOf(v) \cap dbFile.schema # {}}

\* C31: over any sequence of openings of the store every migration version is
\* applied at most once and in ascending order of version, and a migration is
\* atomic: the file holds all of its schema changes and its schema_migrations
\* row, or none of its schema changes and no row.
C31_MigrationsOnceAscendingAtomic ==
  /\ \A i, j \in 1..Len(migrationLog) : i < j => migrationLog[i] < migrationLog[j]
  /\ SchemaComplete = dbFile.rows
  /\ SchemaTouched = dbFile.rows

\* version 1 was applied in the first opening, and in the second opening the
\* migration to version 2 failed and was rolled back
C31_RolledBackInLaterOpening ==
  /\ openings = 2 /\ conn = "open" /\ migratePos = 0
  /\ appliedSet = {1}
  /\ migrationLog = <<1>>
  /\ dbFile.rows = {1}

\* what the claim says does not depend on secret values
Observable(l) == [args |-> l.args, env |-> l.env, log |-> l.log]

\* the launch of the state in a run of the host whose .env file holds `file`
SameLaunchWith(file) ==
  [Launched(launch.n, launch.containerId, launch.options,
            dotenvConfig(processEnv.ambient, file), file)
   EXCEPT !.log = launch.log]

\* the .env files that differ from the one of the state in nothing but the
\* value of an allow-listed secret
OtherSecrets ==
  {file \in EnvFiles :
     /\ DOMAIN file = DOMAIN envFile
     /\ \A k \in DOMAIN file : file[k] # envFile[k] => k \in AllowList
     /\ readSecrets(file) # readSecrets(envFile)
     /\ DOMAIN readSecrets(file) = DOMAIN readSecrets(envFile)}

\* C32: the secrets read on the host reach the worker through the stdin
\* frame only: the docker argument vector, the child's environment and the
\* host's log lines of a launch are the same in any run that differs only in
\* the values of the secrets.
C32_SecretsOnlyInStdinFrame ==
  launch.n > 0 =>
    \A file \in OtherSecrets : Observable(SameLaunchWith(file)) = Observable(launch)

\* the argument vector and the log lines alone do not depend on the secrets
C32_ArgsAndLogIndependent ==
  launch.n > 0 =>
    \A file \in OtherSecrets :
      /\ SameLaunchWith(file).args = launch.args
      /\ SameLaunchWith(file).log = launch.log

\* a worker was launched with a secret in its stdin frame, and timed out
C32_LaunchedWithSecret ==
  /\ launch.n > 0
  /\ launch.stdin.secrets # NoVars
  /\ launch.log # <<>>
  /\ OtherSecrets # {}
====
